---- MODULE Spec2Model ----
(***************************************************************************)
(* A model of the file-cleanser redaction pipeline (src/file-cleanser/src) *)
(* : the sensitive span detector and its overlap filter, text redaction,   *)
(* the image redactor, the region merge step, the image, JSON, CSV and PDF  *)
(* handlers, the batch loop with its statistics, the paths a file's        *)
(* processing writes, the pattern registry, the regions to redact,         *)
(* directory scanning, the parallel batch, and the analysis backend        *)
(* (src/backend/main.py).                                                  *)
(*                                                                         *)
(* Texts are sequences of one-character strings; offsets are 0-based as in *)
(* Python (the character at offset p is t[p+1]).  Confidences are kept in  *)
(* tenths (1.0 -> 10, 0.8 -> 8, 0.7 -> 7, 0.6 -> 6).                       *)
(***************************************************************************)
EXTENDS Integers, Sequences, FiniteSets, TLC

VARIABLES
    pc,         \* position of the operation under analysis
    text,       \* the text handed to detect_in_text / redact_text
    cands,      \* detect_in_text's local list `matches` before filtering
    items,      \* the caller's span list (the list object detect returned)
    items0,     \* `items` as it was when redact_text was called
    redacted,   \* the string redact_text returned
    image,            \* the pixels of the image file at image_path
    sensitive_boxes,  \* the regions handed to redact_image
    redaction_mode,   \* ImageRedactor.redaction_mode
    blur_fails,       \* per region: does the blur transform raise on it
    events,           \* per region handled: what redact_image did with it
    output,           \* the pixels of the file written at output_path
    raised,           \* the exception that left the operation, if any
    boxes,            \* the boxes handed to _merge_nearby_boxes
    merged,           \* the list _merge_nearby_boxes returned
    groups,           \* per returned region: the boxes it absorbed
    ocr_text,         \* the text OCR reads in the image
    ocr_boxes,        \* the word boxes OCR finds in the image
    text_output,      \* the text file written: <<>> or <<its content>>
    result,           \* the handler's result: <<>> or <<the dict>>
    env,              \* how the OCR engine and the file system behaved
    data,             \* the document json.load read from the JSON file
    json_output,      \* the JSON file written: <<>> or <<its document>>
    json_result,      \* the JSON handler's result: <<>> or <<the dict>>
    json_raised,      \* the exception that left the JSON handler, if any
    csv_file, \* the rows csv.reader reads from the CSV file, header first
    csv_output, \* the CSV file written: <<>> or <<its rows>>
    csv_result, \* the CSV handler's result: <<>> or <<the dict>>
    csv_raised, \* the exception that left the CSV handler, if any
    batch, \* the files handed to process_files, in order
    use_multithreading, \* Config.USE_MULTITHREADING
    task, \* per file: where _process_single_file stands and what it did
    stats, \* UniversalFileCleanser.stats
    pdf_pages, \* the pages of the PDF file, as the rasterizer and OCR see them
    rasterizer, \* pdf2image: ok, missing (not installed) or fails (convert_from_path raises)
    via_backend, \* is the file an upload handled by the backend's analyze_files
    upload_copy, \* does the backend's temporary copy of the upload exist
    page_num, \* the page the loop of _process_pdf_file is at
    temp_files, \* the page numbers n with a file temp_page_n.png in TEMP_DIR
    pdf_files, \* the page numbers n with a file <stem>_page_n_redacted.png in OUTPUT_DIR
    pdf_result, \* the dict `result` of _process_pdf_file (<<>>: not created)
    pdf_raised, \* the step of _process_pdf_file that raised, or none
    input_path, \* the path of the file being processed: directory and file name
    path_pages, \* the number of pages, if the file is a PDF
    paths_written, \* the paths opened for writing while the file is processed
    paths_removed, \* the paths removed while the file is processed
    registry, \* Config.SENSITIVE_PATTERNS: the pattern registered under each name, if any
    custom_patterns, \* Config.CUSTOM_PATTERNS
    registration, \* the last call of add_custom_pattern and how it ended
    registrations, \* the number of calls of add_custom_pattern made
    detector_patterns, \* SensitiveDataDetector.patterns of the detector constructed (<<>>: none yet)
    detect_raised, \* the exception that left the detector's detect_in_text, if any
    upload_ext, \* the lower-cased extension of the uploaded file's name
    process_result, \* what processor.process_file did for the upload (<<>>: not called yet)
    redacted_file_path, \* the path redact_file returned (<<>>: none yet)
    file_bytes, \* the bytes analyze_file_with_ai read (<<>>: none yet)
    sent, \* the file bytes handed to model.generate_content (<<>>: none)
    analysis, \* how analyze_file_with_ai ended
    dirty, \* the text handed to clean_text
    cleaned, \* the texts clean_text returned: for dirty, then for its own result
    region_boxes, \* the boxes handed to detect_large_regions_for_redaction
    image_shape, \* the image's height and width
    expanded, \* what _expand_box returned for the first box (<<>>: not called)
    regions, \* the list detect_large_regions_for_redaction returned
    scan_dir, \* the directory scanned: whether it exists, and its entries
    scan_files, \* the list _get_files_from_directory returned
    routed, \* the type detect_file_type gave each file passed to process_file
    par_files, \* the files of the parallel batch: name, pages, and whether anything was found
    par_pos, \* per worker, the number of file operations it has made
    par_status, \* per worker: running, done or failed
    par_fs, \* the files of the temp and output directories, each with the worker that wrote it last
    interference  \* the operations a worker made on a file another worker wrote

textVars == <<text, cands, items, items0, redacted>>
imageVars == <<image, sensitive_boxes, redaction_mode, blur_fails, events,
               output, raised>>
mergeVars == <<boxes, merged, groups>>
handlerVars == <<ocr_text, ocr_boxes, text_output, result, env>>
jsonVars == <<data, json_output, json_result, json_raised>>
csvVars == <<csv_file, csv_output, csv_result, csv_raised>>
batchVars == <<batch, use_multithreading, task, stats>>
pdfVars == <<pdf_pages, rasterizer, via_backend, upload_copy, page_num, temp_files, pdf_files, pdf_result, pdf_raised>>
pathsVars == <<input_path, path_pages, paths_written, paths_removed>>
registryVars == <<registry, custom_patterns, registration, registrations, detector_patterns, detect_raised>>
backendVars == <<upload_ext, process_result, redacted_file_path, file_bytes, sent, analysis>>
cleanVars == <<dirty, cleaned>>
regionsVars == <<region_boxes, image_shape, expanded, regions>>
scanVars == <<scan_dir, scan_files, routed>>
parallelVars == <<par_files, par_pos, par_status, par_fs, interference>>
vars == <<pc, textVars, imageVars, mergeVars, handlerVars, jsonVars, csvVars, batchVars, pdfVars, pathsVars, registryVars, backendVars, cleanVars, regionsVars, scanVars, parallelVars>>

\* The variables an operation on one part of the state leaves alone
restOfText == <<imageVars, mergeVars, handlerVars, jsonVars, csvVars, batchVars, pdfVars, pathsVars, registryVars, backendVars, cleanVars, regionsVars, scanVars, parallelVars>>
restOfImage == <<textVars, mergeVars, handlerVars, jsonVars, csvVars, batchVars, pdfVars, pathsVars, registryVars, backendVars, cleanVars, regionsVars, scanVars, parallelVars>>
restOfMerge == <<textVars, imageVars, handlerVars, jsonVars, csvVars, batchVars, pdfVars, pathsVars, registryVars, backendVars, cleanVars, regionsVars, scanVars, parallelVars>>
restOfJson == <<textVars, imageVars, mergeVars, handlerVars, csvVars, batchVars, pdfVars, pathsVars, registryVars, backendVars, cleanVars, regionsVars, scanVars, parallelVars>>
restOfCsv == <<textVars, imageVars, mergeVars, handlerVars, jsonVars, batchVars, pdfVars, pathsVars, registryVars, backendVars, cleanVars, regionsVars, scanVars, parallelVars>>
restOfBatch == <<textVars, imageVars, mergeVars, handlerVars, jsonVars, csvVars, pdfVars, pathsVars, registryVars, backendVars, cleanVars, regionsVars, scanVars, parallelVars>>
restOfPdf == <<textVars, imageVars, mergeVars, handlerVars, jsonVars, csvVars, batchVars, pathsVars, registryVars, backendVars, cleanVars, regionsVars, scanVars, parallelVars>>
restOfPaths == <<textVars, imageVars, mergeVars, handlerVars, jsonVars, csvVars, batchVars, pdfVars, registryVars, backendVars, cleanVars, regionsVars, scanVars, parallelVars>>
restOfRegistry == <<textVars, imageVars, mergeVars, handlerVars, jsonVars, csvVars, batchVars, pdfVars, pathsVars, backendVars, cleanVars, regionsVars, scanVars, parallelVars>>
restOfBackend == <<textVars, imageVars, mergeVars, handlerVars, jsonVars, csvVars, batchVars, pdfVars, pathsVars, registryVars, cleanVars, regionsVars, scanVars, parallelVars>>
restOfClean == <<textVars, imageVars, mergeVars, handlerVars, jsonVars, csvVars, batchVars, pdfVars, pathsVars, registryVars, backendVars, regionsVars, scanVars, parallelVars>>
restOfRegions == <<textVars, imageVars, mergeVars, handlerVars, jsonVars, csvVars, batchVars, pdfVars, pathsVars, registryVars, backendVars, cleanVars, scanVars, parallelVars>>
restOfScan == <<textVars, imageVars, mergeVars, handlerVars, jsonVars, csvVars, batchVars, pdfVars, pathsVars, registryVars, backendVars, cleanVars, regionsVars, parallelVars>>
restOfParallel == <<textVars, imageVars, mergeVars, handlerVars, jsonVars, csvVars, batchVars, pdfVars, pathsVars, registryVars, backendVars, cleanVars, regionsVars, scanVars>>

\* The image of a file that does not exist or does not decode (cv2.imread's
\* None): it has no pixels
NoImage == <<>>

\* The variables of an operation that is not the one under analysis
IdleText ==
    /\ text = <<>> /\ cands = <<>> /\ items = <<>> /\ items0 = <<>>
    /\ redacted = <<>>
IdleImage ==
    /\ image = NoImage /\ sensitive_boxes = <<>> /\ redaction_mode = "blur"
    /\ blur_fails = <<>> /\ events = <<>> /\ output = NoImage
    /\ raised = "none"
IdleMerge ==
    /\ boxes = <<>> /\ merged = <<>> /\ groups = <<>>
IdleHandler ==
    /\ ocr_text = <<>> /\ ocr_boxes = <<>> /\ text_output = <<>>
    /\ result = <<>> /\ env = <<>>
IdleJson ==
    /\ data = <<>> /\ json_output = <<>> /\ json_result = <<>>
    /\ json_raised = "none"
IdleCsv ==
    /\ csv_file = <<>> /\ csv_output = <<>> /\ csv_result = <<>> /\ csv_raised = "none"
IdleBatch ==
    /\ batch = <<>> /\ use_multithreading = FALSE /\ task = <<>> /\ stats = <<>>
IdlePdf ==
    /\ pdf_pages = <<>> /\ rasterizer = "ok" /\ via_backend = FALSE /\ upload_copy = FALSE /\ page_num = 0 /\ temp_files = {} /\ pdf_files = {} /\ pdf_result = <<>> /\ pdf_raised = "none"
IdlePaths ==
    /\ input_path = <<>> /\ path_pages = 0 /\ paths_written = {} /\ paths_removed = {}
IdleRegistry ==
    /\ registry = <<>> /\ custom_patterns = <<>> /\ registration = <<>> /\ registrations = 0 /\ detector_patterns = <<>> /\ detect_raised = "none"
IdleBackend ==
    /\ upload_ext = "" /\ process_result = <<>> /\ redacted_file_path = <<>> /\ file_bytes = <<>> /\ sent = <<>> /\ analysis = "none"
IdleClean ==
    /\ dirty = <<>> /\ cleaned = <<>>
IdleRegions ==
    /\ region_boxes = <<>> /\ image_shape = <<>> /\ expanded = <<>> /\ regions = <<>>
IdleScan ==
    /\ scan_dir = <<>> /\ scan_files = <<>> /\ routed = <<>>
IdleParallel ==
    /\ par_files = <<>> /\ par_pos = <<>> /\ par_status = <<>> /\ par_fs = {} /\ interference = {}
IdleRestOfText == IdleImage /\ IdleMerge /\ IdleHandler /\ IdleJson /\ IdleCsv /\ IdleBatch /\ IdlePdf /\ IdlePaths /\ IdleRegistry /\ IdleBackend /\ IdleClean /\ IdleRegions /\ IdleScan /\ IdleParallel
IdleRestOfImage == IdleText /\ IdleMerge /\ IdleHandler /\ IdleJson /\ IdleCsv /\ IdleBatch /\ IdlePdf /\ IdlePaths /\ IdleRegistry /\ IdleBackend /\ IdleClean /\ IdleRegions /\ IdleScan /\ IdleParallel
IdleRestOfMerge == IdleText /\ IdleImage /\ IdleHandler /\ IdleJson /\ IdleCsv /\ IdleBatch /\ IdlePdf /\ IdlePaths /\ IdleRegistry /\ IdleBackend /\ IdleClean /\ IdleRegions /\ IdleScan /\ IdleParallel
IdleRestOfJson == IdleText /\ IdleImage /\ IdleMerge /\ IdleHandler /\ IdleCsv /\ IdleBatch /\ IdlePdf /\ IdlePaths /\ IdleRegistry /\ IdleBackend /\ IdleClean /\ IdleRegions /\ IdleScan /\ IdleParallel
IdleRestOfCsv == IdleText /\ IdleImage /\ IdleMerge /\ IdleHandler /\ IdleJson /\ IdleBatch /\ IdlePdf /\ IdlePaths /\ IdleRegistry /\ IdleBackend /\ IdleClean /\ IdleRegions /\ IdleScan /\ IdleParallel
IdleRestOfBatch == IdleText /\ IdleImage /\ IdleMerge /\ IdleHandler /\ IdleJson /\ IdleCsv /\ IdlePdf /\ IdlePaths /\ IdleRegistry /\ IdleBackend /\ IdleClean /\ IdleRegions /\ IdleScan /\ IdleParallel
IdleRestOfPdf == IdleText /\ IdleImage /\ IdleMerge /\ IdleHandler /\ IdleJson /\ IdleCsv /\ IdleBatch /\ IdlePaths /\ IdleRegistry /\ IdleBackend /\ IdleClean /\ IdleRegions /\ IdleScan /\ IdleParallel
IdleRestOfPaths == IdleText /\ IdleImage /\ IdleMerge /\ IdleHandler /\ IdleJson /\ IdleCsv /\ IdleBatch /\ IdlePdf /\ IdleRegistry /\ IdleBackend /\ IdleClean /\ IdleRegions /\ IdleScan /\ IdleParallel
IdleRestOfRegistry == IdleText /\ IdleImage /\ IdleMerge /\ IdleHandler /\ IdleJson /\ IdleCsv /\ IdleBatch /\ IdlePdf /\ IdlePaths /\ IdleBackend /\ IdleClean /\ IdleRegions /\ IdleScan /\ IdleParallel
IdleRestOfBackend == IdleText /\ IdleImage /\ IdleMerge /\ IdleHandler /\ IdleJson /\ IdleCsv /\ IdleBatch /\ IdlePdf /\ IdlePaths /\ IdleRegistry /\ IdleClean /\ IdleRegions /\ IdleScan /\ IdleParallel
IdleRestOfClean == IdleText /\ IdleImage /\ IdleMerge /\ IdleHandler /\ IdleJson /\ IdleCsv /\ IdleBatch /\ IdlePdf /\ IdlePaths /\ IdleRegistry /\ IdleBackend /\ IdleRegions /\ IdleScan /\ IdleParallel
IdleRestOfRegions == IdleText /\ IdleImage /\ IdleMerge /\ IdleHandler /\ IdleJson /\ IdleCsv /\ IdleBatch /\ IdlePdf /\ IdlePaths /\ IdleRegistry /\ IdleBackend /\ IdleClean /\ IdleScan /\ IdleParallel
IdleRestOfScan == IdleText /\ IdleImage /\ IdleMerge /\ IdleHandler /\ IdleJson /\ IdleCsv /\ IdleBatch /\ IdlePdf /\ IdlePaths /\ IdleRegistry /\ IdleBackend /\ IdleClean /\ IdleRegions /\ IdleParallel
IdleRestOfParallel == IdleText /\ IdleImage /\ IdleMerge /\ IdleHandler /\ IdleJson /\ IdleCsv /\ IdleBatch /\ IdlePdf /\ IdlePaths /\ IdleRegistry /\ IdleBackend /\ IdleClean /\ IdleRegions /\ IdleScan

(***************************************************************************)
(* Bounds of the model                                                     *)
(***************************************************************************)
MaxLen == 3       \* longest text drawn over the alphabet Sigma
MaxCands == 3     \* most candidate matches handed to the overlap filter
MaxPos == 3       \* largest end offset of a candidate handed to the filter

(***************************************************************************)
(* Integer and sequence helpers                                            *)
(***************************************************************************)
Max(S) == CHOOSE x \in S : \A y \in S : y <= x
Min(S) == CHOOSE x \in S : \A y \in S : x <= y
Imin(a, b) == IF a <= b THEN a ELSE b
Imax(a, b) == IF a >= b THEN a ELSE b

\* Python's s[:k] and s[k:] for 0 <= k
Prefix(s, k) == SubSeq(s, 1, Imin(k, Len(s)))
Suffix(s, k) == SubSeq(s, k + 1, Len(s))
\* Python's s[a:b]
Slice(s, a, b) == SubSeq(s, a + 1, Imin(b, Len(s)))

\* all sequences over S of length at most n
SeqsUpTo(S, n) == UNION {[1..k -> S] : k \in 0..n}

\* the characters of a string
Range(s) == {s[i] : i \in 1..Len(s)}

\* Python's `sub in s` for strings
Contains(s, sub) ==
    \E p \in 0..(Len(s) - Len(sub)) : SubSeq(s, p + 1, p + Len(sub)) = sub

(***************************************************************************)
(* Character classes of Python's re (ASCII part), under re.IGNORECASE      *)
(***************************************************************************)
Digits == {"0", "1", "2", "3", "4", "5", "6", "7", "8", "9"}
LowerLetters == {"a", "b", "c", "d", "e", "f", "g", "h", "i", "j", "k", "l", "m",
                 "n", "o", "p", "q", "r", "s", "t", "u", "v", "w", "x", "y", "z"}
UpperLetters == {"A", "B", "C", "D", "E", "F", "G", "H", "I", "J", "K", "L", "M",
                 "N", "O", "P", "Q", "R", "S", "T", "U", "V", "W", "X", "Y", "Z"}
Letters == LowerLetters \cup UpperLetters
AlNum == Letters \cup Digits
WordChars == AlNum \cup {"_"}
Spaces == {" ", "\t", "\n"}

\* str.upper() and str.lower() on one character
UpperOf(c) ==
    CASE c = "a" -> "A" [] c = "b" -> "B" [] c = "c" -> "C" [] c = "d" -> "D"
      [] c = "e" -> "E" [] c = "f" -> "F" [] c = "g" -> "G" [] c = "h" -> "H"
      [] c = "i" -> "I" [] c = "j" -> "J" [] c = "k" -> "K" [] c = "l" -> "L"
      [] c = "m" -> "M" [] c = "n" -> "N" [] c = "o" -> "O" [] c = "p" -> "P"
      [] c = "q" -> "Q" [] c = "r" -> "R" [] c = "s" -> "S" [] c = "t" -> "T"
      [] c = "u" -> "U" [] c = "v" -> "V" [] c = "w" -> "W" [] c = "x" -> "X"
      [] c = "y" -> "Y" [] c = "z" -> "Z" [] OTHER -> c
LowerOf(c) ==
    IF c \in UpperLetters THEN CHOOSE l \in LowerLetters : UpperOf(l) = c ELSE c
Upper(s) == [i \in 1..Len(s) |-> UpperOf(s[i])]
Lower(s) == [i \in 1..Len(s) |-> LowerOf(s[i])]
\* str.replace('_', ' ')
UnderscoreToSpace(s) == [i \in 1..Len(s) |-> IF s[i] = "_" THEN " " ELSE s[i]]

\* str.strip()
RECURSIVE LStrip(_)
LStrip(s) == IF s # <<>> /\ Head(s) \in Spaces THEN LStrip(Tail(s)) ELSE s
RECURSIVE RStrip(_)
RStrip(s) ==
    IF s # <<>> /\ s[Len(s)] \in Spaces THEN RStrip(SubSeq(s, 1, Len(s) - 1)) ELSE s
Strip(s) == RStrip(LStrip(s))

(***************************************************************************)
(* Regular-expression primitives                                           *)
(***************************************************************************)
\* \b at offset p of t
Boundary(t, p) ==
    LET before == p > 0 /\ p <= Len(t) /\ t[p] \in WordChars
        after == p >= 0 /\ p < Len(t) /\ t[p + 1] \in WordChars
    IN  before # after

\* length of the longest run of characters of class S starting at offset p
Run(t, p, S) ==
    IF p >= Len(t) THEN 0
    ELSE Max({k \in 0..(Len(t) - p) : \A j \in 1..k : t[p + j] \in S})

\* \bS{lo,hi}\b at offset p: the end offset of the match, or -1
BoundedRun(t, p, S, lo, hi) ==
    IF ~Boundary(t, p) THEN -1
    ELSE LET r == Run(t, p, S)
             ks == {k \in lo..Imin(hi, r) : Boundary(t, p + k)}
         IN  IF ks = {} THEN -1 ELSE p + Max(ks)

(***************************************************************************)
(* The pattern registry (SensitiveDataDetector.patterns).  A pattern is    *)
(* named by its key, spelled as a character sequence so that redact_text's *)
(* upper()/replace() can act on it.  The registry holds 82 expressions;    *)
(* the ones modelled are all those that can match a text of the model's    *)
(* text domain (texts over Sigma of length up to 6, and ExtraTexts), kept  *)
(* in the registry's iteration order.                                      *)
(***************************************************************************)
cvv == <<"c", "v", "v">>
zipcode_us == <<"z", "i", "p", "c", "o", "d", "e", "_", "u", "s">>
postal_code_uk == <<"p", "o", "s", "t", "a", "l", "_", "c", "o", "d", "e", "_", "u", "k">>
pincode_india == <<"p", "i", "n", "c", "o", "d", "e", "_", "i", "n", "d", "i", "a">>
name_after_keyword ==
    <<"n", "a", "m", "e", "_", "a", "f", "t", "e", "r", "_", "k", "e", "y", "w", "o", "r", "d">>
name_standalone ==
    <<"n", "a", "m", "e", "_", "s", "t", "a", "n", "d", "a", "l", "o", "n", "e">>
license_number_generic ==
    <<"l", "i", "c", "e", "n", "s", "e", "_", "n", "u", "m", "b", "e", "r", "_",
      "g", "e", "n", "e", "r", "i", "c">>
license_number_us ==
    <<"l", "i", "c", "e", "n", "s", "e", "_", "n", "u", "m", "b", "e", "r", "_", "u", "s">>
name_field == <<"n", "a", "m", "e", "_", "f", "i", "e", "l", "d">>
pincode == <<"p", "i", "n", "c", "o", "d", "e">>
suspected_aadhaar ==
    <<"s", "u", "s", "p", "e", "c", "t", "e", "d", "_", "a", "a", "d", "h", "a", "a", "r">>
suspected_date == <<"s", "u", "s", "p", "e", "c", "t", "e", "d", "_", "d", "a", "t", "e">>
suspected_name == <<"s", "u", "s", "p", "e", "c", "t", "e", "d", "_", "n", "a", "m", "e">>

email == <<"e", "m", "a", "i", "l">>
email_obfuscated ==
    <<"e", "m", "a", "i", "l", "_", "o", "b", "f", "u", "s", "c", "a", "t", "e", "d">>
domain == <<"d", "o", "m", "a", "i", "n">>

visa == <<"v", "i", "s", "a">>
credit_card_generic ==
    <<"c", "r", "e", "d", "i", "t", "_", "c", "a", "r", "d", "_",
      "g", "e", "n", "e", "r", "i", "c">>

patterns ==
    <<visa, credit_card_generic, cvv, email, email_obfuscated, domain, zipcode_us, postal_code_uk,
      pincode_india, name_after_keyword, name_standalone, license_number_generic,
      license_number_us, name_field, pincode>>

name_keywords == {<<"n", "a", "m", "e">>, <<"n", "a", "a", "m">>}
NameGroupChars == Letters \cup Spaces

\* exactly: the n characters from offset p are digits
DigitsAt(t, p, n) == p + n <= Len(t) /\ \A j \in 1..n : t[p + j] \in Digits

\* n groups \d{4} with an optional [-\s] between them, read from offset p:
\* the end offset, or -1
RECURSIVE CardGroupsEnd(_, _, _)
CardGroupsEnd(t, p, n) ==
    IF ~DigitsAt(t, p, 4) THEN -1
    ELSE IF n = 1 THEN p + 4
    ELSE IF p + 4 < Len(t) /\ t[p + 5] \in Spaces \cup {"-"}
         THEN CardGroupsEnd(t, p + 5, n - 1)
         ELSE CardGroupsEnd(t, p + 4, n - 1)

\* r'\b\d{4}[-\s]?\d{4}[-\s]?\d{4}[-\s]?\d{4}\b'
Match_credit_card_generic(t, p) ==
    IF Boundary(t, p) /\ CardGroupsEnd(t, p, 4) # -1
                     /\ Boundary(t, CardGroupsEnd(t, p, 4))
    THEN CardGroupsEnd(t, p, 4) ELSE -1

\* r'\b4\d{3}[-\s]?\d{4}[-\s]?\d{4}[-\s]?\d{4}\b'
Match_visa(t, p) ==
    IF p < Len(t) /\ t[p + 1] = "4" THEN Match_credit_card_generic(t, p) ELSE -1

\* r'\b\d{3,4}\b'
Match_cvv(t, p) == BoundedRun(t, p, Digits, 3, 4)

\* The character classes of the e-mail and domain expressions
EmailLocalChars == AlNum \cup {".", "_", "%", "+", "-"}
EmailDomainChars == AlNum \cup {".", "-"}
TldChars == Letters \cup {"|"}
LabelChars == AlNum \cup {"-"}

\* r'[A-Z|a-z]{2,}\b' at offset s: the end offset of the greedy match, or -1
TldEnd(t, s) ==
    LET ms == {m \in 2..Run(t, s, TldChars) : Boundary(t, s + m)}
    IN  IF ms = {} THEN -1 ELSE s + Max(ms)

\* r'\b[A-Za-z0-9._%+-]+@[A-Za-z0-9.-]+\.[A-Z|a-z]{2,}\b': the greedy domain
\* part gives characters back until a dot and a top-level name follow
Match_email(t, p) ==
    LET local == Run(t, p, EmailLocalChars)
        q == p + local + 1
        ks == {k \in 1..(Run(t, q, EmailDomainChars) - 1) :
                  t[q + k + 1] = "." /\ TldEnd(t, q + k + 1) # -1}
    IN  IF /\ Boundary(t, p) /\ local >= 1
           /\ p + local < Len(t) /\ t[p + local + 1] = "@"
           /\ ks # {}
        THEN TldEnd(t, q + Max(ks) + 1) ELSE -1

\* The length of the token of `tokens` found at offset u (case-insensitive),
\* or 0
TokenAt(t, u, tokens) ==
    LET found == {tok \in tokens : Lower(Slice(t, u, u + Len(tok))) = tok}
    IN  IF found = {} THEN 0 ELSE Len(CHOOSE tok \in found : TRUE)
AtTokens == {<<"@">>, <<"[", "a", "t", "]">>, <<"(", "a", "t", ")">>}
DotTokens == {<<".">>, <<"[", "d", "o", "t", "]">>, <<"(", "d", "o", "t", ")">>}

\* The end offset of r'\s*(?:\.|\[dot\]|\(dot\))\s*[A-Z|a-z]{2,}\b' at offset
\* s, or -1
DotAndTldEnd(t, s) ==
    LET u == s + Run(t, s, Spaces)
        n == TokenAt(t, u, DotTokens)
    IN  IF n = 0 THEN -1
        ELSE TldEnd(t, u + n + Run(t, u + n, Spaces))

\* r'\b[A-Za-z0-9._%+-]+\s*(?:@|\[at\]|\(at\))\s*[A-Za-z0-9.-]+\s*
\*   (?:\.|\[dot\]|\(dot\))\s*[A-Z|a-z]{2,}\b'
Match_email_obfuscated(t, p) ==
    LET local == Run(t, p, EmailLocalChars)
        u == p + local + Run(t, p + local, Spaces)
        n == TokenAt(t, u, AtTokens)
        q == u + n + Run(t, u + n, Spaces)
        ks == {k \in 1..Run(t, q, EmailDomainChars) :
                  DotAndTldEnd(t, q + k) # -1}
    IN  IF Boundary(t, p) /\ local >= 1 /\ n > 0 /\ ks # {}
        THEN DotAndTldEnd(t, q + Max(ks)) ELSE -1

\* The offsets after each of the labels
\* (?:[a-zA-Z0-9](?:[a-zA-Z0-9-]{0,61}[a-zA-Z0-9])?\.)+ read from offset p
RECURSIVE LabelChain(_, _)
LabelChain(t, p) ==
    LET l == Run(t, p, LabelChars)
    IN  IF /\ l >= 1 /\ l <= 63
           /\ t[p + 1] \in AlNum /\ t[p + l] \in AlNum
           /\ p + l < Len(t) /\ t[p + l + 1] = "."
        THEN {p + l + 1} \cup LabelChain(t, p + l + 1)
        ELSE {}

\* r'\b(?:[a-zA-Z0-9](?:[a-zA-Z0-9-]{0,61}[a-zA-Z0-9])?\.)+[a-zA-Z]{2,}\b'
Match_domain(t, p) ==
    LET starts == {s \in LabelChain(t, p) :
                      Run(t, s, Letters) >= 2
                      /\ Boundary(t, s + Run(t, s, Letters))}
    IN  IF Boundary(t, p) /\ starts # {}
        THEN Max(starts) + Run(t, Max(starts), Letters) ELSE -1

\* r'\b\d{5}(?:-\d{4})?\b'
Match_zipcode_us(t, p) ==
    IF ~(Boundary(t, p) /\ DigitsAt(t, p, 5)) THEN -1
    ELSE IF p + 5 < Len(t) /\ t[p + 6] = "-" /\ DigitsAt(t, p + 6, 4)
            /\ Boundary(t, p + 10) THEN p + 10
    ELSE IF Boundary(t, p + 5) THEN p + 5
    ELSE -1

\* r'\b[A-Z]{1,2}\d{1,2}[A-Z]?\s?\d[A-Z]{2}\b'
Match_postal_code_uk(t, p) ==
    LET InClass(q, n, S) == q + n <= Len(t) /\ \A j \in 1..n : t[q + j] \in S
        ends == {p + a + b + c + s + 3 : <<a, b, c, s>> \in
                    {x \in (1..2) \X (1..2) \X (0..1) \X (0..1) :
                        /\ InClass(p, x[1], Letters)
                        /\ InClass(p + x[1], x[2], Digits)
                        /\ InClass(p + x[1] + x[2], x[3], Letters)
                        /\ InClass(p + x[1] + x[2] + x[3], x[4], Spaces)
                        /\ InClass(p + x[1] + x[2] + x[3] + x[4], 1, Digits)
                        /\ InClass(p + x[1] + x[2] + x[3] + x[4] + 1, 2, Letters)
                        /\ Boundary(t, p + x[1] + x[2] + x[3] + x[4] + 3)}}
    IN  IF Boundary(t, p) /\ ends # {} THEN Max(ends) ELSE -1

\* r'\b\d{6}\b' (pincode_india in the configuration, pincode in the detector)
Match_pincode(t, p) == BoundedRun(t, p, Digits, 6, 6)

\* the offsets at which a chain of words [A-Z][a-z]+(?:\s+[A-Z][a-z]+)* begun at
\* offset p can end
RECURSIVE NameChainEnds(_, _)
NameChainEnds(t, p) ==
    LET l == Run(t, p, Letters)
        e == p + l
        w == Run(t, e, Spaces)
    IN  IF l < 2 THEN {}
        ELSE {e} \cup (IF w >= 1 THEN NameChainEnds(t, e + w) ELSE {})

\* r'\b([A-Z][a-z]+(?:\s+[A-Z][a-z]+)*)\b'
Match_name_standalone(t, p) ==
    LET ends == {e \in NameChainEnds(t, p) : Boundary(t, e)}
    IN  IF Boundary(t, p) /\ ends # {} THEN Max(ends) ELSE -1

\* r'(?i)(?:name|naam|...)[\s:=-]+([A-Za-z\s]{2,50})': the greedy separator run
\* gives back as few characters as leave the group its two
Match_name_after_keyword(t, p) ==
    LET seps == Run(t, p + 4, Spaces \cup {":", "=", "-"})
        ks == {k \in 1..seps : Run(t, p + 4 + k, NameGroupChars) >= 2}
    IN  IF p + 4 <= Len(t) /\ Lower(Slice(t, p, p + 4)) \in name_keywords /\ ks # {}
        THEN p + 4 + Max(ks) + Imin(50, Run(t, p + 4 + Max(ks), NameGroupChars))
        ELSE -1

\* r'(?:Name\s*[:\-]\s*)([A-Za-z\s]{2,30})'
Match_name_field(t, p) ==
    LET w1 == Run(t, p + 4, Spaces)
        q == p + 4 + w1 + 1
        ks == {k \in 0..Run(t, q, Spaces) : Run(t, q + k, NameGroupChars) >= 2}
    IN  IF /\ p + 4 <= Len(t) /\ Lower(Slice(t, p, p + 4)) = <<"n", "a", "m", "e">>
           /\ q <= Len(t) /\ t[q] \in {":", "-"}
           /\ ks # {}
        THEN q + Max(ks) + Imin(30, Run(t, q + Max(ks), NameGroupChars))
        ELSE -1

\* r'\b[A-Z]{2,5}\d{3,10}[A-Z]{0,3}\b'
Match_license_number_generic(t, p) ==
    LET l == Run(t, p, Letters)
        d == Run(t, p + l, Digits)
        m == Run(t, p + l + d, Letters)
    IN  IF /\ Boundary(t, p)
           /\ l >= 2 /\ l <= 5
           /\ d >= 3 /\ d <= 10
           /\ m <= 3
           /\ Boundary(t, p + l + d + m)
        THEN p + l + d + m ELSE -1

\* r'\b[A-Z0-9]{1,7}\b'
Match_license_number_us(t, p) == BoundedRun(t, p, AlNum, 1, 7)

\* the end offset of the match of the named pattern at offset p, or -1
MatchAt(ptype, t, p) ==
    CASE ptype = visa -> Match_visa(t, p)
      [] ptype = credit_card_generic -> Match_credit_card_generic(t, p)
      [] ptype = cvv -> Match_cvv(t, p)
      [] ptype = email -> Match_email(t, p)
      [] ptype = email_obfuscated -> Match_email_obfuscated(t, p)
      [] ptype = domain -> Match_domain(t, p)
      [] ptype = zipcode_us -> Match_zipcode_us(t, p)
      [] ptype = postal_code_uk -> Match_postal_code_uk(t, p)
      [] ptype = pincode_india -> Match_pincode(t, p)
      [] ptype = name_after_keyword -> Match_name_after_keyword(t, p)
      [] ptype = name_standalone -> Match_name_standalone(t, p)
      [] ptype = name_field -> Match_name_field(t, p)
      [] ptype = license_number_generic -> Match_license_number_generic(t, p)
      [] ptype = license_number_us -> Match_license_number_us(t, p)
      [] ptype = pincode -> Match_pincode(t, p)

\* re.finditer: leftmost matches, scanning on from the end of each match
RECURSIVE FindIter(_, _, _)
FindIter(ptype, t, p) ==
    IF p > Len(t) THEN <<>>
    ELSE LET e == MatchAt(ptype, t, p)
         IN  IF e = -1 THEN FindIter(ptype, t, p + 1)
             ELSE <<[start |-> p, end |-> e]>>
                  \o FindIter(ptype, t, IF e > p THEN e ELSE p + 1)

MatchRecord(ptype, t, s, e, conf) ==
    [type |-> ptype, text |-> Slice(t, s, e), start |-> s, end |-> e, confidence |-> conf]

\* detect_in_text's first loop: every pattern of the registry, in registry order
RECURSIVE RegistryMatches(_, _)
RegistryMatches(ps, t) ==
    IF ps = <<>> THEN <<>>
    ELSE LET found == FindIter(Head(ps), t, 0)
         IN  [i \in 1..Len(found) |->
                 MatchRecord(Head(ps), t, found[i].start, found[i].end, 10)]
             \o RegistryMatches(Tail(ps), t)

(***************************************************************************)
(* _fuzzy_detection: three families of expressions run without the         *)
(* registry (the number and date families are case-sensitive, which makes  *)
(* no difference to digits).                                               *)
(***************************************************************************)
\* r'\b\d{4}\s+\d{4}\s+\d{4}\b'
Match_number_spaced(t, p) ==
    LET w1 == Run(t, p + 4, Spaces)
        w2 == Run(t, p + 8 + w1, Spaces)
    IN  IF /\ Boundary(t, p) /\ DigitsAt(t, p, 4)
           /\ w1 >= 1 /\ DigitsAt(t, p + 4 + w1, 4)
           /\ w2 >= 1 /\ DigitsAt(t, p + 8 + w1 + w2, 4)
           /\ Boundary(t, p + 12 + w1 + w2)
        THEN p + 12 + w1 + w2 ELSE -1

\* r'\b\d{4}\s?\d{4}\s?\d{4}\b'
Match_number_optional_spaces(t, p) ==
    LET s1 == IF p + 4 < Len(t) /\ t[p + 5] \in Spaces THEN 1 ELSE 0
        s2 == IF p + 8 + s1 < Len(t) /\ t[p + 9 + s1] \in Spaces THEN 1 ELSE 0
    IN  IF /\ Boundary(t, p) /\ DigitsAt(t, p, 4)
           /\ DigitsAt(t, p + 4 + s1, 4)
           /\ DigitsAt(t, p + 8 + s1 + s2, 4)
           /\ Boundary(t, p + 12 + s1 + s2)
        THEN p + 12 + s1 + s2 ELSE -1

\* r'\b\d{12}\b'
Match_number_compact(t, p) == BoundedRun(t, p, Digits, 12, 12)

DateSeps == {"-", "/"}

\* r'\b\d{1,2}[-/]\d{1,2}[-/]\d{4}\b'
Match_date_dmy(t, p) ==
    LET d1 == Run(t, p, Digits)
        d2 == Run(t, p + d1 + 1, Digits)
        q == p + d1 + d2 + 2
    IN  IF /\ Boundary(t, p)
           /\ d1 \in 1..2 /\ p + d1 < Len(t) /\ t[p + d1 + 1] \in DateSeps
           /\ d2 \in 1..2 /\ q - 1 < Len(t) /\ t[q] \in DateSeps
           /\ DigitsAt(t, q, 4) /\ Boundary(t, q + 4)
        THEN q + 4 ELSE -1

\* r'\b\d{4}[-/]\d{1,2}[-/]\d{1,2}\b'
Match_date_ymd(t, p) ==
    LET d2 == Run(t, p + 5, Digits)
        q == p + 5 + d2 + 1
        d3 == Run(t, q, Digits)
    IN  IF /\ Boundary(t, p) /\ DigitsAt(t, p, 4)
           /\ p + 4 < Len(t) /\ t[p + 5] \in DateSeps
           /\ d2 \in 1..2 /\ q - 1 < Len(t) /\ t[q] \in DateSeps
           /\ d3 \in 1..2 /\ Boundary(t, q + d3)
        THEN q + d3 ELSE -1

\* r'(?:name|naam)\s*[:\-]?\s*([a-zA-Z\s]{2,25})' at offset p: the ways
\* <<spaces, separator, spaces>> the prefix before the group can be taken
NamePrefixChoices(t, p) ==
    {x \in (0..Len(t)) \X (0..1) \X (0..Len(t)) :
        /\ x[1] <= Run(t, p + 4, Spaces)
        /\ x[2] = 1 => (p + 4 + x[1] < Len(t) /\ t[p + 5 + x[1]] \in {":", "-"})
        /\ x[3] <= Run(t, p + 4 + x[1] + x[2], Spaces)
        /\ Run(t, p + 4 + x[1] + x[2] + x[3], NameGroupChars) >= 2}

\* greedy quantifiers: the backtracking search takes the choice that is largest
\* in the first quantifier, then the second, then the third
LexGreater(x, y) ==
    \/ x[1] > y[1]
    \/ x[1] = y[1] /\ x[2] > y[2]
    \/ x[1] = y[1] /\ x[2] = y[2] /\ x[3] >= y[3]

NameMatches(t, p) ==
    /\ p + 4 <= Len(t)
    /\ Lower(Slice(t, p, p + 4)) \in name_keywords
    /\ NamePrefixChoices(t, p) # {}

\* match.start(1)
NameGroupStart(t, p) ==
    LET c == CHOOSE x \in NamePrefixChoices(t, p) :
                 \A y \in NamePrefixChoices(t, p) : LexGreater(x, y)
    IN  p + 4 + c[1] + c[2] + c[3]

\* match.end(1), which is match.end()
Match_name_context(t, p) ==
    IF ~NameMatches(t, p) THEN -1
    ELSE NameGroupStart(t, p) + Imin(25, Run(t, NameGroupStart(t, p), NameGroupChars))

number_patterns == <<"number_spaced", "number_optional_spaces", "number_compact">>
date_patterns == <<"date_dmy", "date_ymd">>
name_context_patterns == <<"name_context">>

FuzzyMatchAt(fp, t, p) ==
    CASE fp = "number_spaced" -> Match_number_spaced(t, p)
      [] fp = "number_optional_spaces" -> Match_number_optional_spaces(t, p)
      [] fp = "number_compact" -> Match_number_compact(t, p)
      [] fp = "date_dmy" -> Match_date_dmy(t, p)
      [] fp = "date_ymd" -> Match_date_ymd(t, p)
      [] fp = "name_context" -> Match_name_context(t, p)

RECURSIVE FuzzyFindIter(_, _, _)
FuzzyFindIter(fp, t, p) ==
    IF p > Len(t) THEN <<>>
    ELSE LET e == FuzzyMatchAt(fp, t, p)
         IN  IF e = -1 THEN FuzzyFindIter(fp, t, p + 1)
             ELSE <<[start |-> p, end |-> e]>>
                  \o FuzzyFindIter(fp, t, IF e > p THEN e ELSE p + 1)

\* one loop of _fuzzy_detection over a list of expressions
RECURSIVE FuzzyFamily(_, _, _, _)
FuzzyFamily(fps, t, ftype, conf) ==
    IF fps = <<>> THEN <<>>
    ELSE LET found == FuzzyFindIter(Head(fps), t, 0)
         IN  [i \in 1..Len(found) |->
                 MatchRecord(ftype, t, found[i].start, found[i].end, conf)]
             \o FuzzyFamily(Tail(fps), t, ftype, conf)

\* the name loop: the span is group 1, its text is stripped, and a name of
\* fewer than two characters is not reported
RECURSIVE FuzzyNames(_, _)
FuzzyNames(found, t) ==
    IF found = <<>> THEN <<>>
    ELSE LET gs == NameGroupStart(t, Head(found).start)
             ge == Head(found).end
             name == Strip(Slice(t, gs, ge))
         IN  (IF Len(name) > 1 /\ \E i \in 1..Len(name) : name[i] \notin Digits
              THEN <<[type |-> suspected_name, text |-> name, start |-> gs,
                      end |-> ge, confidence |-> 6]>>
              ELSE <<>>)
             \o FuzzyNames(Tail(found), t)

fuzzy_detection(t) ==
    FuzzyFamily(number_patterns, t, suspected_aadhaar, 8)
    \o FuzzyFamily(date_patterns, t, suspected_date, 7)
    \o FuzzyNames(FuzzyFindIter("name_context", t, 0), t)

(***************************************************************************)
(* _remove_overlapping_matches                                             *)
(***************************************************************************)
\* list.sort(key=start) is stable: x goes after every element whose key is
\* not larger
InsertByStart(sorted, x) ==
    LET k == Cardinality({i \in 1..Len(sorted) : sorted[i].start <= x.start})
    IN  SubSeq(sorted, 1, k) \o <<x>> \o SubSeq(sorted, k + 1, Len(sorted))

RECURSIVE SortByStart(_)
SortByStart(ms) ==
    IF ms = <<>> THEN <<>>
    ELSE InsertByStart(SortByStart(SubSeq(ms, 1, Len(ms) - 1)), ms[Len(ms)])

\* list.sort(key=start, reverse=True) keeps equal keys in their original order
InsertByStartDesc(sorted, x) ==
    LET k == Cardinality({i \in 1..Len(sorted) : sorted[i].start >= x.start})
    IN  SubSeq(sorted, 1, k) \o <<x>> \o SubSeq(sorted, k + 1, Len(sorted))

RECURSIVE SortByStartDesc(_)
SortByStartDesc(ms) ==
    IF ms = <<>> THEN <<>>
    ELSE InsertByStartDesc(SortByStartDesc(SubSeq(ms, 1, Len(ms) - 1)), ms[Len(ms)])

\* match['start'] < existing['end'] and match['end'] > existing['start']
Overlaps(match, existing) == match.start < existing.end /\ match.end > existing.start

\* list.remove(x): drops the first element equal to x
ListRemove(l, x) ==
    LET k == Min({i \in 1..Len(l) : l[i] = x})
    IN  SubSeq(l, 1, k - 1) \o SubSeq(l, k + 1, Len(l))

\* a variant of FilterStep that accepts the stronger match and forgets to evict
FilterStepKeepsBoth(filtered, match) ==
    LET ks == {k \in 1..Len(filtered) : Overlaps(match, filtered[k])}
    IN  IF ks = {} THEN Append(filtered, match)
        ELSE IF match.confidence > filtered[Min(ks)].confidence
             THEN Append(filtered, match)
             ELSE filtered

\* a variant of FilterStep that keeps the first of two overlapping matches
FilterStepIgnoresConfidence(filtered, match) ==
    LET ks == {k \in 1..Len(filtered) : Overlaps(match, filtered[k])}
    IN  IF ks = {} THEN Append(filtered, match) ELSE filtered

\* the body of the loop over the sorted matches: the match is compared with the
\* first accepted span it overlaps, and only with that one
FilterStep(filtered, match) ==
    LET ks == {k \in 1..Len(filtered) : Overlaps(match, filtered[k])}
    IN  IF ks = {} THEN Append(filtered, match)
        ELSE IF match.confidence > filtered[Min(ks)].confidence
             THEN Append(ListRemove(filtered, filtered[Min(ks)]), match)
             ELSE filtered

RECURSIVE FilterLoop(_, _)
FilterLoop(ms, filtered) ==
    IF ms = <<>> THEN filtered
    ELSE FilterLoop(Tail(ms), FilterStep(filtered, Head(ms)))

remove_overlapping_matches(matches) ==
    IF matches = <<>> THEN matches ELSE FilterLoop(SortByStart(matches), <<>>)

(***************************************************************************)
(* detect_in_text and redact_text                                          *)
(***************************************************************************)
Candidates(t) == RegistryMatches(patterns, t) \o fuzzy_detection(t)

detect_in_text(t) == remove_overlapping_matches(Candidates(t))

\* f"[{match['type'].upper().replace('_', ' ')} REDACTED]"
Replacement(match) ==
    <<"[">> \o UnderscoreToSpace(Upper(match.type))
            \o <<" ", "R", "E", "D", "A", "C", "T", "E", "D", "]">>

RECURSIVE RedactLoop(_, _)
RedactLoop(ms, t) ==
    IF ms = <<>> THEN t
    ELSE RedactLoop(Tail(ms),
                    Prefix(t, Head(ms).start) \o Replacement(Head(ms))
                        \o Suffix(t, Head(ms).end))

\* a variant of redact_text that applies the spans in the order given
redact_text_unsorted(t, matches) ==
    IF matches = <<>> THEN t ELSE RedactLoop(matches, t)

\* a variant of redact_text that applies the spans in ascending start order
redact_text_ascending(t, matches) ==
    IF matches = <<>> THEN t ELSE RedactLoop(SortByStart(matches), t)

\* the string redact_text returns
redact_text(t, matches) ==
    IF matches = <<>> THEN t ELSE RedactLoop(SortByStartDesc(matches), t)

\* the caller's list after redact_text: matches.sort(...) sorts it in place
ListAfterRedact(matches) ==
    IF matches = <<>> THEN matches ELSE SortByStartDesc(matches)

(***************************************************************************)
(* Inputs of the text operations                                           *)
(***************************************************************************)
\* the alphabet texts are drawn over: a letter, a digit, a space, a separator
Sigma == {"E", "1", " ", "-"}

\* longer texts that reach the keyword-anchored name expressions
ExtraTexts ==
    { <<"_", "n", "a", "m", "e", "E", "E", " ">>,
      <<"n", "a", "m", "e", ":", "E", "E">>,
      <<"_", "n", "a", "m", "e", "E", "E", " ", "E">> }

Texts == SeqsUpTo(Sigma, MaxLen) \cup ExtraTexts

\* the confidences detect_in_text gives: 1.0, 0.8, 0.7, 0.6
Confidences == {10, 8, 7, 6}
TypeOfConfidence(c) ==
    CASE c = 10 -> cvv [] c = 8 -> suspected_aadhaar [] c = 7 -> suspected_date
      [] c = 6 -> suspected_name

\* the text the filter's candidates are matches of
FilterText == [i \in 1..MaxPos |-> "1"]

\* every candidate a pattern can give on FilterText: a non-empty range
CandidateSpans ==
    {MatchRecord(TypeOfConfidence(c), FilterText, r[1], r[2], c) :
        r \in {x \in (0..MaxPos) \X (0..MaxPos) : x[1] < x[2]}, c \in Confidences}

\* span lists handed to redact_text directly: pairwise non-overlapping, valid
\* offsets, any order
RedactTypes == {cvv, zipcode_us}
SpansOf(t) ==
    {MatchRecord(ty, t, r[1], r[2], 10) :
        r \in {x \in (0..Len(t)) \X (0..Len(t)) : x[1] < x[2]}, ty \in RedactTypes}
PairwiseDisjoint(ms) ==
    \A i, j \in 1..Len(ms) : i # j => ~Overlaps(ms[i], ms[j])
SpanLists(t) == {ms \in SeqsUpTo(SpansOf(t), MaxLen) : PairwiseDisjoint(ms)}

(***************************************************************************)
(* Actions of the text operations                                          *)
(***************************************************************************)
\* one pass of detect_in_text's loops: a pattern reports one more match
CollectCandidate ==
    /\ pc = "filter"
    /\ Len(cands) < MaxCands
    /\ \E c \in CandidateSpans : cands' = Append(cands, c)
    /\ UNCHANGED <<pc, text, items, items0, redacted, restOfText>>

\* detect_in_text's last step on the candidate list collected
FilterCandidates ==
    /\ pc = "filter"
    /\ items' = remove_overlapping_matches(cands)
    /\ pc' = "filtered"
    /\ UNCHANGED <<text, cands, items0, redacted, restOfText>>

\* detect_in_text(text)
DetectInText ==
    /\ pc = "detect"
    /\ cands' = Candidates(text)
    /\ items' = detect_in_text(text)
    /\ pc' = "detected"
    /\ UNCHANGED <<text, items0, redacted, restOfText>>

\* redact_text(text, items): returns the string and sorts the caller's list
RedactText ==
    /\ pc \in {"redact", "detected"}
    /\ items0' = items
    /\ redacted' = redact_text(text, items)
    /\ items' = ListAfterRedact(items)
    /\ pc' = "redacted"
    /\ UNCHANGED <<text, cands, restOfText>>

InitFilter ==
    /\ pc = "filter"
    /\ text = FilterText
    /\ cands = <<>>
    /\ items = <<>> /\ items0 = <<>> /\ redacted = <<>>
    /\ IdleRestOfText

InitRedact ==
    /\ pc = "redact"
    /\ text \in SeqsUpTo(Sigma, MaxLen)
    /\ items \in SpanLists(text)
    /\ cands = <<>> /\ items0 = <<>> /\ redacted = <<>>
    /\ IdleRestOfText

InitText ==
    /\ pc = "detect"
    /\ text \in Texts
    /\ cands = <<>> /\ items = <<>> /\ items0 = <<>> /\ redacted = <<>>
    /\ IdleRestOfText

NextFilter == CollectCandidate \/ FilterCandidates
NextRedact == RedactText
NextText == DetectInText \/ RedactText

SpecFilter == InitFilter /\ [][NextFilter]_vars
SpecRedact == InitRedact /\ [][NextRedact]_vars
SpecText == InitText /\ [][NextText]_vars

(***************************************************************************)
(* Properties of the detector and of text redaction                        *)
(***************************************************************************)
\* C1: every span detect_in_text returns has start < end, and no two returned
\* spans overlap, whatever the candidate matches were.
C1_SpansDisjoint ==
    pc = "filtered" =>
        /\ \A i \in 1..Len(items) : items[i].start < items[i].end
        /\ \A i, j \in 1..Len(items) : i # j => ~Overlaps(items[i], items[j])

\* C1 witness: the candidate that starts first is accepted and then evicted by
\* a stronger candidate overlapping it, and two spans are returned.
C1_Witness ==
    /\ pc = "filtered"
    /\ Len(cands) = 3
    /\ Len(items) = 2
    /\ \E i \in 1..3 :
          /\ \A j \in 1..3 : j # i => cands[i].start < cands[j].start
          /\ \A k \in 1..2 : items[k] # cands[i]
          /\ \E k \in 1..2 : /\ Overlaps(items[k], cands[i])
                               /\ items[k].confidence > cands[i].confidence

\* the one of two candidates that comes first when the list is sorted by start
FirstInStartOrder(a, b) == IF b.start < a.start THEN b ELSE a

\* C2: of exactly two overlapping candidates with different confidences, the
\* filter returns the one of higher confidence alone, whichever starts first and
\* whichever is listed first; with equal confidences it returns only the one
\* that is first in start order.
C2_HigherConfidenceSurvives ==
    (pc = "filtered" /\ Len(cands) = 2 /\ Overlaps(cands[1], cands[2])) =>
        items = IF cands[1].confidence > cands[2].confidence THEN <<cands[1]>>
                ELSE IF cands[2].confidence > cands[1].confidence THEN <<cands[2]>>
                ELSE <<FirstInStartOrder(cands[1], cands[2])>>

\* C2 witness: confidences 0.6 and 1.0, the weaker one listed first and starting
\* first, and only the stronger one returned.
C2_Witness ==
    /\ pc = "filtered"
    /\ Len(cands) = 2
    /\ Overlaps(cands[1], cands[2])
    /\ cands[1].confidence = 6 /\ cands[2].confidence = 10
    /\ cands[1].start < cands[2].start
    /\ items = <<cands[2]>>

\* the text with every span's range replaced at once: scanning from offset p, a
\* span that starts here gives its placeholder, any other character is copied
RECURSIVE ReplaceAllAtOnce(_, _, _)
ReplaceAllAtOnce(t, ms, p) ==
    IF p >= Len(t) THEN <<>>
    ELSE IF \E i \in 1..Len(ms) : ms[i].start = p
         THEN LET m == ms[CHOOSE i \in 1..Len(ms) : ms[i].start = p]
              IN  Replacement(m) \o ReplaceAllAtOnce(t, ms, m.end)
         ELSE <<t[p + 1]>> \o ReplaceAllAtOnce(t, ms, p + 1)

\* C3: for pairwise non-overlapping spans with valid offsets, in any order,
\* redact_text returns the text with every span's range replaced by its
\* placeholder and every other character kept in place.
C3_RedactIsSimultaneous ==
    pc = "redacted" => redacted = ReplaceAllAtOnce(text, items0, 0)

\* C3 witness: two spans handed over in ascending order, of different types.
C3_Witness ==
    /\ pc = "redacted"
    /\ Len(items0) = 2
    /\ items0[1].start < items0[2].start
    /\ items0[1].type = zipcode_us /\ items0[2].type = cvv
    /\ Len(redacted) > Len(text)

\* the placeholders redact_text can write
Placeholders ==
    {Replacement([type |-> ty]) : ty \in
        {patterns[i] : i \in 1..Len(patterns)}
            \cup {suspected_aadhaar, suspected_date, suspected_name}}

\* the number of placeholder tokens in a text
PlaceholderCount(t) ==
    Cardinality({p \in 0..Len(t) : \E ph \in Placeholders :
                    p + Len(ph) <= Len(t) /\ SubSeq(t, p + 1, p + Len(ph)) = ph})

\* the text with its placeholder tokens taken out
RECURSIVE WithoutPlaceholders(_, _)
WithoutPlaceholders(t, p) ==
    IF p >= Len(t) THEN <<>>
    ELSE IF \E ph \in Placeholders :
               p + Len(ph) <= Len(t) /\ SubSeq(t, p + 1, p + Len(ph)) = ph
         THEN LET ph == CHOOSE x \in Placeholders :
                            p + Len(x) <= Len(t) /\ SubSeq(t, p + 1, p + Len(x)) = x
              IN  WithoutPlaceholders(t, p + Len(ph))
         ELSE <<t[p + 1]>> \o WithoutPlaceholders(t, p + 1)

\* the characters of the text that lie in no span
RECURSIVE OutsideSpans(_, _, _)
OutsideSpans(t, ms, p) ==
    IF p >= Len(t) THEN <<>>
    ELSE (IF \E i \in 1..Len(ms) : ms[i].start <= p /\ p < ms[i].end
          THEN <<>> ELSE <<t[p + 1]>>)
         \o OutsideSpans(t, ms, p + 1)

\* C4 as stated: the output of redact_text on detect's spans holds exactly one
\* placeholder per span, and no span's matched text occurs in it.
C4_NoMatchedTextInOutput ==
    pc = "redacted" =>
        /\ PlaceholderCount(redacted) = Len(items0)
        /\ \A i \in 1..Len(items0) : ~Contains(redacted, items0[i].text)

\* C4 amended: the output holds exactly one placeholder per span, and apart
\* from the placeholders it is the input without the characters of the spans'
\* ranges, in their order.
C4_SpansReplacedOnce ==
    pc = "redacted" =>
        /\ PlaceholderCount(redacted) = Len(items0)
        /\ WithoutPlaceholders(redacted, 0) = OutsideSpans(text, items0, 0)

\* C4 witness: detect returned two spans and a character outside them is kept.
C4_Witness ==
    /\ pc = "redacted"
    /\ Len(items0) = 2
    /\ PlaceholderCount(redacted) = 2
    /\ OutsideSpans(text, items0, 0) # <<>>

\* C5: redact_text leaves the caller's span list as it was, same elements in
\* the same order.
C5_RedactTextIsPure ==
    pc = "redacted" => items = items0

(***************************************************************************)
(* The image redactor (image_redactor.py)                                  *)
(*                                                                         *)
(* An image is a function from its pixels to a pixel value.  The input     *)
(* image is a generic picture: every pixel holds its original content      *)
(* "orig", which is not black and which the blur does not reproduce.  A    *)
(* blurred pixel holds "blur", a blacked-out pixel "black".                *)
(***************************************************************************)
ImgW == 12        \* image.shape[1] of the images drawn
ImgH == 10        \* image.shape[0] of the images drawn
MaxBoxes == 2     \* most regions handed to redact_image

padding == 8      \* redact_image's padding around each region

Pixels == (0..(ImgW - 1)) \X (0..(ImgH - 1))
OriginalImage == [p \in Pixels |-> "orig"]

\* The pixels of numpy's image[y:y+h, x:x+w] for x >= 0 and y >= 0
RoiPixels(x, y, w, h) ==
    {p \in Pixels : /\ x <= p[1] /\ p[1] < x + w
                    /\ y <= p[2] /\ p[2] < y + h}

\* _blackout_region: the slice assignment of [0, 0, 0]; on the three-channel
\* array cv2.imread returns it cannot raise, so its handler never runs.
blackout_region(img, x, y, w, h) ==
    [p \in Pixels |-> IF p \in RoiPixels(x, y, w, h) THEN "black" ELSE img[p]]

\* _blur_region whose handler lets the blur's exception out
blur_region_reraises(img, x, y, w, h, fails) ==
    IF RoiPixels(x, y, w, h) = {}
    THEN [image |-> img, did |-> "empty", exc |-> FALSE]
    ELSE IF fails
         THEN [image |-> img, did |-> "blur", exc |-> TRUE]
         ELSE [image |-> [p \in Pixels |->
                             IF p \in RoiPixels(x, y, w, h) THEN "blur"
                                                            ELSE img[p]],
               did |-> "blur", exc |-> FALSE]

\* _blur_region: an empty ROI returns at once; otherwise the ROI is blurred
\* and written back, and if the blur raises (`fails`) the handler blacks the
\* region out instead.  exc: does an exception leave the function.
blur_region(img, x, y, w, h, fails) ==
    IF RoiPixels(x, y, w, h) = {}
    THEN [image |-> img, did |-> "empty", exc |-> FALSE]
    ELSE IF fails
         THEN [image |-> blackout_region(img, x, y, w, h),
               did |-> "fallback", exc |-> FALSE]
         ELSE [image |-> [p \in Pixels |->
                             IF p \in RoiPixels(x, y, w, h) THEN "blur"
                                                            ELSE img[p]],
               did |-> "blur", exc |-> FALSE]

\* The rectangle redact_image transforms for a box: the box grown by the
\* padding and clipped to the image
x_start(box) == Imax(0, box.x - padding)
y_start(box) == Imax(0, box.y - padding)
x_end(box) == Imin(ImgW, box.x + box.w + padding)
y_end(box) == Imin(ImgH, box.y + box.h + padding)

\* redact_image's loop body with twice the padding
redact_box_wide(img, box, mode, fails) ==
    LET xs == Imax(0, box.x - 2 * padding)
        ys == Imax(0, box.y - 2 * padding)
        xe == Imin(ImgW, box.x + box.w + 2 * padding)
        ye == Imin(ImgH, box.y + box.h + 2 * padding)
    IN  IF xe > xs /\ ye > ys
        THEN IF mode = "blur"
             THEN blur_region(img, xs, ys, xe - xs, ye - ys, fails)
             ELSE [image |-> blackout_region(img, xs, ys, xe - xs, ye - ys),
                   did |-> "blackout", exc |-> FALSE]
        ELSE [image |-> img, did |-> "skipped", exc |-> FALSE]

\* The body of redact_image's loop for one box
redact_box(img, box, mode, fails) ==
    IF x_end(box) > x_start(box) /\ y_end(box) > y_start(box)
    THEN IF mode = "blur"
         THEN blur_region(img, x_start(box), y_start(box),
                          x_end(box) - x_start(box),
                          y_end(box) - y_start(box), fails)
         ELSE [image |-> blackout_region(img, x_start(box), y_start(box),
                                         x_end(box) - x_start(box),
                                         y_end(box) - y_start(box)),
               did |-> "blackout", exc |-> FALSE]
    ELSE [image |-> img, did |-> "skipped", exc |-> FALSE]

\* redact_image's loop from box k on; an exception leaving a box ends it
RECURSIVE redact_boxes(_, _, _, _, _)
redact_boxes(img, sboxes, k, mode, fails) ==
    IF k > Len(sboxes)
    THEN [image |-> img, events |-> <<>>, exc |-> FALSE]
    ELSE LET step == redact_box(img, sboxes[k], mode, fails[k])
         IN  IF step.exc
             THEN [image |-> step.image, events |-> <<"raised">>,
                   exc |-> TRUE]
             ELSE LET rest == redact_boxes(step.image, sboxes, k + 1, mode,
                                           fails)
                  IN  [image |-> rest.image,
                       events |-> <<step.did>> \o rest.events,
                       exc |-> rest.exc]

\* redact_image(image_path, sensitive_boxes, output_path): `file` is what
\* cv2.imread returns for image_path, `writable` what cv2.imwrite returns.
\* The result holds the file written (or none) and the exception re-raised
\* by the outer handler.
redact_image(file, sboxes, mode, fails, writable) ==
    IF file = NoImage
    THEN [output |-> NoImage, events |-> <<>>, raised |-> "load"]
    ELSE LET loop == redact_boxes(file, sboxes, 1, mode, fails)
         IN  IF loop.exc
             THEN [output |-> NoImage, events |-> loop.events,
                   raised |-> "region"]
             ELSE IF writable
                  THEN [output |-> loop.image, events |-> loop.events,
                        raised |-> "none"]
                  ELSE [output |-> NoImage, events |-> loop.events,
                        raised |-> "save"]

\* The regions drawn: in the top-left corner, in the bottom-right corner and
\* wholly to the right of the image, of zero or positive width
BoxXs == {0, ImgW - 1, ImgW + padding}
BoxYs == {0, ImgH - 1}
BoxWs == {0, 2}
BoxHs == {1}
Boxes ==
    {[text |-> <<"1">>, x |-> x, y |-> y, w |-> w, h |-> h] :
        x \in BoxXs, y \in BoxYs, w \in BoxWs, h \in BoxHs}
BoxLists == SeqsUpTo(Boxes, MaxBoxes)
RedactionModes == {"blur", "blackout"}

\* A call of ImageRedactor.redact_image
RedactImage ==
    /\ pc = "redact_image"
    /\ \E readable \in BOOLEAN, writable \in BOOLEAN,
          fails \in [1..Len(sensitive_boxes) -> BOOLEAN] :
          LET r == redact_image(IF readable THEN image ELSE NoImage,
                                sensitive_boxes, redaction_mode, fails,
                                writable)
          IN  /\ blur_fails' = fails
              /\ events' = r.events
              /\ output' = r.output
              /\ raised' = r.raised
    /\ pc' = "image_done"
    /\ UNCHANGED <<image, sensitive_boxes, redaction_mode, restOfImage>>

InitRedactImage ==
    /\ pc = "redact_image"
    /\ image = OriginalImage
    /\ sensitive_boxes \in BoxLists
    /\ redaction_mode \in RedactionModes
    /\ blur_fails = <<>> /\ events = <<>> /\ output = NoImage
    /\ raised = "none"
    /\ IdleRestOfImage

NextRedactImage == RedactImage
SpecRedactImage == InitRedactImage /\ [][NextRedactImage]_vars

(***************************************************************************)
(* Properties of the image redactor                                        *)
(***************************************************************************)
\* The pixels of a box that lie in the image, and the pixels redact_image
\* transforms for it
GivenPixels(box) == RoiPixels(box.x, box.y, box.w, box.h)
PaddedPixels(box) ==
    RoiPixels(x_start(box), y_start(box), x_end(box) - x_start(box),
              y_end(box) - y_start(box))
AllGiven == UNION {GivenPixels(sensitive_boxes[k]) :
                      k \in 1..Len(sensitive_boxes)}
AllPadded == UNION {PaddedPixels(sensitive_boxes[k]) :
                       k \in 1..Len(sensitive_boxes)}

\* C6 as stated: in the written output, every pixel outside all the given
\* regions has its input value, in blur mode and in blackout mode.
C6_OnlyGivenRegionsChange ==
    output # NoImage =>
        \A p \in Pixels \ AllGiven : output[p] = image[p]

\* C6: in the written output, every pixel outside all the given regions each
\* grown by the 8-pixel padding and clipped to the image has its input
\* value, in blur mode and in blackout mode.
C6_OnlyPaddedRegionsChange ==
    output # NoImage =>
        \A p \in Pixels \ AllPadded : output[p] = image[p]

\* A region was transformed in each mode and part of the image lies outside
\* every padded region
C6_Witness ==
    /\ output # NoImage
    /\ Len(sensitive_boxes) = MaxBoxes
    /\ \E p \in AllPadded : output[p] # image[p]
    /\ Pixels \ AllPadded # {}
    /\ AllPadded \ AllGiven # {}

\* The regions whose transform wrote pixel p; the last of them decides its
\* value in the output
PaintedBy(p) ==
    {k \in 1..Len(events) :
        /\ events[k] \in {"blur", "fallback", "blackout"}
        /\ p \in PaddedPixels(sensitive_boxes[k])}

\* C7: no exception raised while a region is transformed leaves redact_image
\* (only a failed load or save does); whenever the image loads every region
\* is handled, each one either skipped as a no-op (its padded, clipped
\* rectangle is empty), blurred, or blacked out (in blackout mode, and in
\* blur mode exactly when the blur raised on it), and a region blacked out
\* after a failed blur is black in the output unless a later region painted
\* over it.
C7_RegionFailureContained ==
    pc = "image_done" =>
        /\ raised \in {"none", "load", "save"}
        /\ raised # "load" =>
              /\ Len(events) = Len(sensitive_boxes)
              /\ \A k \in 1..Len(events) :
                    LET box == sensitive_boxes[k]
                    IN  IF PaddedPixels(box) = {}
                        THEN events[k] = "skipped"
                        ELSE IF redaction_mode = "blackout"
                             THEN events[k] = "blackout"
                             ELSE IF blur_fails[k]
                                  THEN events[k] = "fallback"
                                  ELSE events[k] = "blur"
        /\ output # NoImage =>
              \A p \in Pixels :
                  output[p] = IF PaintedBy(p) = {} THEN image[p]
                              ELSE IF events[Max(PaintedBy(p))] = "blur"
                                   THEN "blur"
                                   ELSE "black"

\* The blur raised on the first of two regions, which was blacked out; the
\* second, outside the image, was then skipped, and the image was saved
C7_Witness ==
    /\ pc = "image_done"
    /\ raised = "none" /\ output # NoImage
    /\ redaction_mode = "blur"
    /\ events = <<"fallback", "skipped">>
    /\ sensitive_boxes[1].w = 0
    /\ \E p \in PaddedPixels(sensitive_boxes[1]) : output[p] = "black"

(***************************************************************************)
(* The region merge step (sensitive_detector.py, _merge_nearby_boxes)      *)
(*                                                                         *)
(* List positions are 1-based here (Python's index i is position i + 1).   *)
(***************************************************************************)
MaxMerge == 3         \* most boxes handed to the merge step

merge_distance == 50  \* the threshold detect_large_regions passes

center_x(box) == box.x + (box.w \div 2)
center_y(box) == box.y + (box.h \div 2)

\* The squared centre-to-centre distance of two boxes
Distance2(box1, box2) ==
    (center_x(box1) - center_x(box2)) * (center_x(box1) - center_x(box2))
    + (center_y(box1) - center_y(box2)) * (center_y(box1) - center_y(box2))

\* The distance test with the squared distance compared to the threshold
WithinDistanceUnsquared(box1, box2, d) == Distance2(box1, box2) <= d

\* distance <= merge_distance, where distance is the square root of the
\* integer Distance2: the root is at most d exactly when Distance2 <= d * d
WithinDistance(box1, box2, d) == Distance2(box1, box2) <= d * d

\* The inner loop over boxes[i+1:] from position j on.  acc holds min_x,
\* min_y, max_x, max_y, the set `used` and the positions absorbed so far.
RECURSIVE merge_inner(_, _, _, _, _)
merge_inner(bs, i, j, d, acc) ==
    IF j > Len(bs) THEN acc
    ELSE IF j \in acc.used THEN merge_inner(bs, i, j + 1, d, acc)
    ELSE IF WithinDistance(bs[i], bs[j], d)
         THEN merge_inner(bs, i, j + 1, d,
                  [min_x |-> Imin(acc.min_x, bs[j].x),
                   min_y |-> Imin(acc.min_y, bs[j].y),
                   max_x |-> Imax(acc.max_x, bs[j].x + bs[j].w),
                   max_y |-> Imax(acc.max_y, bs[j].y + bs[j].h),
                   used |-> acc.used \cup {j},
                   group |-> acc.group \cup {j}])
         ELSE merge_inner(bs, i, j + 1, d, acc)

\* The outer loop from position i on
RECURSIVE merge_outer(_, _, _, _, _, _)
merge_outer(bs, i, d, mrg, used, grps) ==
    IF i > Len(bs) THEN [merged |-> mrg, groups |-> grps]
    ELSE IF i \in used THEN merge_outer(bs, i + 1, d, mrg, used, grps)
    ELSE LET acc == merge_inner(bs, i, i + 1, d,
                        [min_x |-> bs[i].x, min_y |-> bs[i].y,
                         max_x |-> bs[i].x + bs[i].w,
                         max_y |-> bs[i].y + bs[i].h,
                         used |-> used, group |-> {i}])
             merged_box == [bs[i] EXCEPT !.x = acc.min_x, !.y = acc.min_y,
                                         !.w = acc.max_x - acc.min_x,
                                         !.h = acc.max_y - acc.min_y]
         IN  merge_outer(bs, i + 1, d, Append(mrg, merged_box),
                         acc.used \cup {i}, Append(grps, acc.group))

\* _merge_nearby_boxes(boxes, merge_distance): the returned list, and for
\* each returned region the positions of the boxes it absorbed
merge_nearby_boxes(bs, d) ==
    IF Len(bs) <= 1
    THEN [merged |-> bs, groups |-> [k \in 1..Len(bs) |-> {k}]]
    ELSE merge_outer(bs, 1, d, <<>>, {}, <<>>)

\* The selected boxes drawn: word boxes on two text lines
MergeXs == {0, 10, 30, 200}
MergeYs == {0, 40}
MergeWs == {20, 40}
MergeHs == {10}
MergeBoxes ==
    {[text |-> <<"1">>, x |-> x, y |-> y, w |-> w, h |-> h] :
        x \in MergeXs, y \in MergeYs, w \in MergeWs, h \in MergeHs}

\* A call of _merge_nearby_boxes as detect_large_regions_for_redaction makes
MergeNearbyBoxes ==
    /\ pc = "merge"
    /\ LET r == merge_nearby_boxes(boxes, merge_distance)
       IN  /\ merged' = r.merged
           /\ groups' = r.groups
    /\ pc' = "merged"
    /\ UNCHANGED <<boxes, restOfMerge>>

InitMerge ==
    /\ pc = "merge"
    /\ boxes \in SeqsUpTo(MergeBoxes, MaxMerge)
    /\ merged = <<>> /\ groups = <<>>
    /\ IdleRestOfMerge

NextMerge == MergeNearbyBoxes
SpecMerge == InitMerge /\ [][NextMerge]_vars

(***************************************************************************)
(* Properties of the merge step                                            *)
(***************************************************************************)
\* The min/max envelope of the boxes at the positions S
Envelope(bs, S) ==
    LET left == Min({bs[k].x : k \in S})
        top == Min({bs[k].y : k \in S})
        right == Max({bs[k].x + bs[k].w : k \in S})
        bottom == Max({bs[k].y + bs[k].h : k \in S})
    IN  [x |-> left, y |-> top, w |-> right - left, h |-> bottom - top]
SameRectangle(box, r) ==
    box.x = r.x /\ box.y = r.y /\ box.w = r.w /\ box.h = r.h

\* C8: two boxes whose centres are 10px apart are merged (threshold 50px)
\* into exactly one region, the envelope of both; two boxes whose centres are
\* 200px apart give two regions, each equal to its input box; and every
\* region returned is exactly the envelope of the boxes absorbed into it.
C8_MergedRegionIsEnvelope ==
    pc = "merged" =>
        /\ Len(groups) = Len(merged)
        /\ \A r \in 1..Len(merged) :
              /\ groups[r] # {} /\ groups[r] \subseteq 1..Len(boxes)
              /\ SameRectangle(merged[r], Envelope(boxes, groups[r]))
        /\ (Len(boxes) = 2 /\ Distance2(boxes[1], boxes[2]) = 10 * 10) =>
              /\ Len(merged) = 1
              /\ SameRectangle(merged[1], Envelope(boxes, {1, 2}))
        /\ (Len(boxes) = 2 /\ Distance2(boxes[1], boxes[2]) = 200 * 200) =>
              merged = boxes

\* Two boxes with centres 10px apart became one region larger than either
C8_Witness ==
    /\ pc = "merged"
    /\ Len(boxes) = 2
    /\ Distance2(boxes[1], boxes[2]) = 10 * 10
    /\ Len(merged) = 1
    /\ groups = <<{1, 2}>>
    /\ merged[1].w > boxes[1].w /\ merged[1].w > boxes[2].w

(***************************************************************************)
(* The text cleaner (text_cleaner.py)                                      *)
(***************************************************************************)
Punctuation == {".", ",", ";", ":", "!", "?"}
Brackets == {"(", ")", "{", "}"}
\* The characters the second cleaning pattern keeps: [\w\s.,;:!?()-]
KeptChars == WordChars \cup Spaces \cup Punctuation \cup {"(", ")", "-"}
Misrecognitions == {"|", "\\", "/", "<", ">"}
SentenceEnds == {".", "!", "?"}

\* The substitution rules in the order clean_text applies them
cleaning_patterns ==
    <<"whitespace", "special", "lone_l", "lone_0", "punctuation", "brackets">>
line_break_rules == <<"line_break", "paragraph_break">>
artifacts == <<"scattered_letters", "misrecognitions", "single_character">>

\* offset after the last newline of the whitespace run starting at offset p,
\* or -1 if the run holds no newline
LastNewline(t, p) ==
    LET ends == {q \in (p + 1)..(p + Run(t, p, Spaces)) : t[q] = "\n"}
    IN  IF ends = {} THEN -1 ELSE Max(ends)

\* The end offset of the match of a rule at offset p of t, or -1
CleanMatchAt(rule, t, p) ==
    LET c == t[p + 1]
        lone == Boundary(t, p) /\ Boundary(t, p + 1)
    IN  CASE rule = "whitespace" ->
                 IF c \in Spaces THEN p + Run(t, p, Spaces) ELSE -1
          [] rule = "special" -> IF c \notin KeptChars THEN p + 1 ELSE -1
          [] rule = "lone_l" -> IF c = "l" /\ lone THEN p + 1 ELSE -1
          [] rule = "lone_0" -> IF c = "0" /\ lone THEN p + 1 ELSE -1
          [] rule \in {"punctuation", "brackets"} ->
                 LET q == p + Run(t, p, Spaces)
                     class == IF rule = "punctuation" THEN Punctuation
                                                      ELSE Brackets
                 IN  IF q < Len(t) /\ t[q + 1] \in class
                     THEN q + 1 + Run(t, q + 1, Spaces)
                     ELSE -1
          [] rule = "line_break" ->
                 IF /\ p + 3 <= Len(t)
                    /\ c \in LowerLetters \cup {","}
                    /\ t[p + 2] = "\n"
                    /\ t[p + 3] \in LowerLetters
                 THEN p + 3 ELSE -1
          [] rule = "paragraph_break" ->
                 IF c = "\n" THEN LastNewline(t, p + 1) ELSE -1
          [] rule = "scattered_letters" ->
                 IF /\ p + 5 <= Len(t)
                    /\ Boundary(t, p) /\ Boundary(t, p + 5)
                    /\ c \in UpperLetters /\ t[p + 2] \in Spaces
                    /\ t[p + 3] \in UpperLetters /\ t[p + 4] \in Spaces
                    /\ t[p + 5] \in UpperLetters
                 THEN p + 5 ELSE -1
          [] rule = "misrecognitions" ->
                 IF c \in Misrecognitions THEN p + 1 ELSE -1
          [] rule = "single_character" ->
                 IF c \in WordChars /\ lone /\ Run(t, p + 1, Spaces) > 0
                 THEN p + 1 + Run(t, p + 1, Spaces) ELSE -1

\* What the rule's match at [p, e) is replaced by
CleanReplacement(rule, t, p, e) ==
    CASE rule = "whitespace" -> <<" ">>
      [] rule = "special" -> <<>>
      [] rule = "lone_l" -> <<"I">>
      [] rule = "lone_0" -> <<"O">>
      [] rule = "punctuation" -> <<t[p + Run(t, p, Spaces) + 1], " ">>
      [] rule = "brackets" -> <<" ", t[p + Run(t, p, Spaces) + 1]>>
      [] rule = "line_break" -> <<t[p + 1], " ", t[p + 3]>>
      [] rule = "paragraph_break" -> <<"\n", "\n">>
      [] OTHER -> <<" ">>

\* re.sub(rule, replacement, t) from offset p on: leftmost matches, each
\* search resuming where the previous match ended
RECURSIVE ReSub(_, _, _)
ReSub(rule, t, p) ==
    IF p >= Len(t) THEN <<>>
    ELSE LET e == CleanMatchAt(rule, t, p)
         IN  IF e > p
             THEN CleanReplacement(rule, t, p, e) \o ReSub(rule, t, e)
             ELSE <<t[p + 1]>> \o ReSub(rule, t, p + 1)

\* Applying the rules of a list one after the other, from rule k on
RECURSIVE ApplyRules(_, _, _)
ApplyRules(rules, k, t) ==
    IF k > Len(rules) THEN t
    ELSE ApplyRules(rules, k + 1, ReSub(rules[k], t, 0))

\* str.isupper(): some cased character, and no lowercase one
IsUpper(s) ==
    /\ \E i \in 1..Len(s) : s[i] \in UpperLetters
    /\ \A i \in 1..Len(s) : s[i] \notin LowerLetters

\* str.lower().capitalize()
Capitalize(s) ==
    [i \in 1..Len(s) |-> IF i = 1 THEN UpperOf(LowerOf(s[i])) ELSE LowerOf(s[i])]

\* One piece of re.split(r'([.!?]+)', text) as _standardize_casing leaves it
CasedSentence(sentence) ==
    IF Strip(sentence) # <<>> /\ IsUpper(sentence) /\ Len(sentence) > 10
    THEN Capitalize(sentence)
    ELSE sentence

\* _standardize_casing from offset p on: the pieces are the maximal runs of
\* sentence-ending characters and the texts between them
RECURSIVE standardize_casing(_, _)
standardize_casing(t, p) ==
    IF p >= Len(t) THEN <<>>
    ELSE LET n == IF t[p + 1] \in SentenceEnds
                  THEN Run(t, p, SentenceEnds)
                  ELSE Run(t, p, {c \in Range(t) : c \notin SentenceEnds})
         IN  CasedSentence(Slice(t, p, p + n)) \o standardize_casing(t, p + n)

\* ' '.join(text.split()) from offset p on
RECURSIVE JoinSplit(_, _)
JoinSplit(t, p) ==
    LET start == p + Run(t, p, Spaces)
    IN  IF start >= Len(t) THEN <<>>
        ELSE LET n == Run(t, start, {c \in Range(t) : c \notin Spaces})
                 rest == JoinSplit(t, start + n)
             IN  IF rest = <<>> THEN Slice(t, start, start + n)
                 ELSE Slice(t, start, start + n) \o <<" ">> \o rest

\* TextCleaner.clean_text
clean_text(t) ==
    IF t = <<>> THEN <<>>
    ELSE LET patterned == ApplyRules(cleaning_patterns, 1, t)
             unbroken == ApplyRules(line_break_rules, 1, patterned)
             cased == standardize_casing(unbroken, 0)
             cleared == ApplyRules(artifacts, 1, cased)
         IN  Strip(JoinSplit(cleared, 0))

(***************************************************************************)
(* The image handler (universal_processor.py, _process_image)              *)
(***************************************************************************)
MaxOcrBoxes == 1      \* most word boxes OCR reports for an image

\* The boxes selected for a match: every OCR box whose text contains the
\* match's text, in OCR order
RECURSIVE BoxesContaining(_, _, _)
BoxesContaining(match, bounding_boxes, k) ==
    IF k > Len(bounding_boxes) THEN <<>>
    ELSE (IF Contains(bounding_boxes[k].text, match.text)
          THEN <<bounding_boxes[k]>> ELSE <<>>)
         \o BoxesContaining(match, bounding_boxes, k + 1)

\* The selection loop over the matches from match k on
RECURSIVE SelectBoxes(_, _, _)
SelectBoxes(text_matches, bounding_boxes, k) ==
    IF k > Len(text_matches) THEN <<>>
    ELSE BoxesContaining(text_matches[k], bounding_boxes, 1)
         \o SelectBoxes(text_matches, bounding_boxes, k + 1)

\* TextExtractor.extract_from_image: what OCR reads, or ("", []) when the
\* image does not decode or the OCR engine raises
extract_from_image(file, engine_ok, read_text, read_boxes) ==
    IF file = NoImage \/ ~engine_ok
    THEN [text |-> <<>>, bounding_boxes |-> <<>>]
    ELSE [text |-> read_text, bounding_boxes |-> read_boxes]

\* The names of the files the handler writes (after the file's stem)
redacted_txt == "_redacted.txt"
redacted_png == "_redacted.png"
processed_png == "_processed.png"

\* The result dict with redaction_applied set after the branches
ResultAlwaysApplied(ocr, matches, files, applied) ==
    [text_extracted |-> ocr.text, bounding_boxes |-> ocr.bounding_boxes,
     sensitive_items |-> matches, output_files |-> files,
     redaction_applied |-> TRUE]

\* The dict _process_image returns
Result(ocr, matches, files, applied) ==
    [text_extracted |-> ocr.text, bounding_boxes |-> ocr.bounding_boxes,
     sensitive_items |-> matches, output_files |-> files,
     redaction_applied |-> applied]

\* Step 4 once redact_image has run on the selected boxes: its exception
\* leaves the handler, otherwise the handler returns
after_redact_image(ocr, matches_after, redacted_text, selected, fails, r) ==
    [text_output |-> <<redacted_text>>, sensitive_boxes |-> selected,
     blur_fails |-> fails, events |-> r.events, output |-> r.output,
     raised |-> r.raised,
     result |-> IF r.raised # "none" THEN <<>>
                ELSE <<Result(ocr, matches_after,
                              <<redacted_txt, redacted_png>>, TRUE)>>]

\* Step 4: the text file is written, then either the selected boxes are
\* redacted into _redacted.png or the image is copied to _processed.png.
\* matches_after is the span list as redact_text left it.
save_outputs(file, ocr, matches_after, redacted_text, selected, mode, io, fails) ==
    IF ~io.text_writable
    THEN \* open(text_output, 'w') raises
         [text_output |-> <<>>, sensitive_boxes |-> selected,
          blur_fails |-> <<>>, events |-> <<>>, output |-> NoImage,
          raised |-> "text_write", result |-> <<>>]
    ELSE IF selected # <<>>
         THEN after_redact_image(ocr, matches_after, redacted_text, selected,
                  fails,
                  redact_image(file, selected, mode, fails,
                               io.image_writable))
         ELSE IF file = NoImage
              THEN \* cv2.imwrite raises on the None cv2.imread returned
                   [text_output |-> <<redacted_text>>,
                    sensitive_boxes |-> selected, blur_fails |-> <<>>,
                    events |-> <<>>, output |-> NoImage,
                    raised |-> "imwrite", result |-> <<>>]
              ELSE \* the value cv2.imwrite returns is not looked at
                   [text_output |-> <<redacted_text>>,
                    sensitive_boxes |-> selected, blur_fails |-> <<>>,
                    events |-> <<>>,
                    output |-> IF io.image_writable THEN file ELSE NoImage,
                    raised |-> "none",
                    result |-> <<Result(ocr, matches_after,
                                   <<redacted_txt, processed_png>>, FALSE)>>]

\* Steps 3 and 4, given the spans detected in the cleaned text
select_and_save(file, ocr, cleaned_text, text_matches, mode, io, fails) ==
    [text |-> cleaned_text, items0 |-> text_matches,
     items |-> ListAfterRedact(text_matches),
     redacted |-> redact_text(cleaned_text, text_matches),
     saved |-> save_outputs(file, ocr, ListAfterRedact(text_matches),
                   redact_text(cleaned_text, text_matches),
                   SelectBoxes(text_matches, ocr.bounding_boxes, 1),
                   mode, io, fails)]

\* Steps 2 to 4, given the cleaned text
clean_and_detect(file, ocr, cleaned_text, mode, io, fails) ==
    select_and_save(file, ocr, cleaned_text, detect_in_text(cleaned_text),
                    mode, io, fails)

\* Steps 2 to 4, given what OCR returned: the text is cleaned unless empty
clean_and_process(file, ocr, mode, io, fails) ==
    clean_and_detect(file, ocr,
        IF ocr.text # <<>> THEN clean_text(ocr.text) ELSE <<>>,
        mode, io, fails)

\* _process_image(file_path): io tells how the OCR engine and the file
\* system behave, fails on which selected boxes the blur raises
process_image(file, read_text, read_boxes, mode, io, fails) ==
    clean_and_process(file,
        extract_from_image(file, io.engine_ok, read_text, read_boxes),
        mode, io, fails)

\* The boxes _process_image selects for the image
SelectedBoxes(file, read_text, read_boxes, engine_ok) ==
    IF file = NoImage \/ ~engine_ok \/ read_text = <<>> THEN <<>>
    ELSE SelectBoxes(detect_in_text(clean_text(read_text)), read_boxes, 1)

\* The state a call of _process_image leaves
HandlerLeaves(io, h) ==
    /\ env' = io
    /\ text' = h.text
    /\ items0' = h.items0
    /\ items' = h.items
    /\ redacted' = h.redacted
    /\ text_output' = h.saved.text_output
    /\ sensitive_boxes' = h.saved.sensitive_boxes
    /\ blur_fails' = h.saved.blur_fails
    /\ events' = h.saved.events
    /\ output' = h.saved.output
    /\ raised' = h.saved.raised
    /\ result' = h.saved.result

\* A call of UniversalFileProcessor._process_image on the image file
ProcessImage ==
    /\ pc = "process_image"
    /\ \E engine_ok \in BOOLEAN, text_writable \in BOOLEAN,
          image_writable \in BOOLEAN :
          \E fails \in [1..Len(SelectedBoxes(image, ocr_text, ocr_boxes,
                                             engine_ok)) -> BOOLEAN] :
             HandlerLeaves([engine_ok |-> engine_ok,
                            text_writable |-> text_writable,
                            image_writable |-> image_writable],
                 process_image(image, ocr_text, ocr_boxes, redaction_mode,
                     [engine_ok |-> engine_ok,
                      text_writable |-> text_writable,
                      image_writable |-> image_writable], fails))
    /\ pc' = "image_processed"
    /\ UNCHANGED <<image, redaction_mode, ocr_text, ocr_boxes, cands,
                   mergeVars, jsonVars, csvVars, batchVars, pdfVars, pathsVars, registryVars, backendVars, cleanVars, regionsVars, scanVars, parallelVars>>

\* What OCR reads: texts over letters, digits and blanks, and word boxes
OcrSigma == {"E", "1", " "}
OcrWords == {<<"E">>, <<"1">>}
OcrBoxes ==
    {[text |-> word, x |-> x, y |-> 0, w |-> 2, h |-> 1] :
        word \in OcrWords, x \in {0, ImgW - 1}}

InitImage ==
    /\ pc = "process_image"
    /\ image \in {OriginalImage, NoImage}
    /\ ocr_text \in SeqsUpTo(OcrSigma, MaxLen)
    /\ ocr_boxes \in SeqsUpTo(OcrBoxes, MaxOcrBoxes)
    /\ redaction_mode = "blur"
    /\ sensitive_boxes = <<>> /\ blur_fails = <<>> /\ events = <<>>
    /\ output = NoImage /\ raised = "none"
    /\ text_output = <<>> /\ result = <<>> /\ env = <<>>
    /\ IdleText /\ IdleMerge /\ IdleJson /\ IdleCsv /\ IdleBatch /\ IdlePdf /\ IdlePaths /\ IdleRegistry /\ IdleBackend /\ IdleClean /\ IdleRegions /\ IdleScan /\ IdleParallel

NextImage == ProcessImage
SpecImage == InitImage /\ [][NextImage]_vars

MaxNodes == 4     \* most values (leaves and containers) in a document

JStr(s) == [kind |-> "str", val |-> s]
JNum(n) == [kind |-> "num", val |-> n]
JBool(b) == [kind |-> "bool", val |-> b]
JNull == [kind |-> "null", val |-> <<>>]
JList(vs) == [kind |-> "list", val |-> vs]
JDict(ps) == [kind |-> "dict", val |-> ps]

\* The placeholder a sensitive string leaf is replaced by
REDACTED == <<"[", "R", "E", "D", "A", "C", "T", "E", "D", "]">>

\* str(idx) of a list index
DecimalDigits == <<"0", "1", "2", "3", "4", "5", "6", "7", "8", "9">>
RECURSIVE IntStr(_)
IntStr(n) ==
    IF n < 10 THEN <<DecimalDigits[n + 1]>>
    ELSE IntStr(n \div 10) \o <<DecimalDigits[(n % 10) + 1]>>

\* f"{path}.{key}" if path else key
KeyPath(path, key) == IF path # <<>> THEN path \o <<".">> \o key ELSE key
\* f"{path}[{idx}]"
IndexPath(path, idx) == path \o <<"[">> \o IntStr(idx) \o <<"]">>

\* {**m, 'json_path': path}
WithPath(m, path) ==
    [type |-> m.type, text |-> m.text, start |-> m.start, end |-> m.end,
     confidence |-> m.confidence, json_path |-> path]

\* The string branch with the leaf redacted span by span
redact_leaf_substring(s, path) ==
    LET item_matches == detect_in_text(s)
    IN  IF item_matches # <<>>
        THEN [value |-> JStr(redact_text(s, item_matches)),
              matches |-> [i \in 1..Len(item_matches) |->
                              WithPath(item_matches[i], path)]]
        ELSE [value |-> JStr(s), matches |-> <<>>]

\* The string branch of _redact_json_recursive
redact_leaf(s, path) ==
    LET item_matches == detect_in_text(s)
    IN  IF item_matches # <<>>
        THEN [value |-> JStr(REDACTED),
              matches |-> [i \in 1..Len(item_matches) |->
                              WithPath(item_matches[i], path)]]
        ELSE [value |-> JStr(s), matches |-> <<>>]

RECURSIVE redact_json_recursive(_, _)
RECURSIVE redact_dict_items(_, _, _)
RECURSIVE redact_list_items(_, _, _)

\* redacted[key] = redacted_value; matches.extend(value_matches), followed
\* by what the rest of the loop adds
DictStep(key, r, rest) ==
    [value |-> <<[key |-> key, value |-> r.value]>> \o rest.value,
     matches |-> r.matches \o rest.matches]
\* redacted.append(redacted_item); matches.extend(item_matches), followed by
\* what the rest of the loop adds
ListStep(r, rest) ==
    [value |-> <<r.value>> \o rest.value,
     matches |-> r.matches \o rest.matches]

\* The dict loop from its k-th pair on: the redacted pairs and their matches
redact_dict_items(ps, k, path) ==
    IF k > Len(ps) THEN [value |-> <<>>, matches |-> <<>>]
    ELSE DictStep(ps[k].key,
                  redact_json_recursive(ps[k].value, KeyPath(path, ps[k].key)),
                  redact_dict_items(ps, k + 1, path))

\* The list loop from its k-th element on (idx = k - 1)
redact_list_items(vs, k, path) ==
    IF k > Len(vs) THEN [value |-> <<>>, matches |-> <<>>]
    ELSE ListStep(redact_json_recursive(vs[k], IndexPath(path, k - 1)),
                  redact_list_items(vs, k + 1, path))

\* The value and the matches a container branch returns
Container(kind, r) == [value |-> [kind |-> kind, val |-> r.value], matches |-> r.matches]

\* _redact_json_recursive(data, sensitive_detector, path): the redacted value
\* and the matches found below it
redact_json_recursive(d, path) ==
    CASE d.kind = "dict" -> Container("dict", redact_dict_items(d.val, 1, path))
      [] d.kind = "list" -> Container("list", redact_list_items(d.val, 1, path))
      [] d.kind = "str" -> redact_leaf(d.val, path)
      [] OTHER -> [value |-> d, matches |-> <<>>]

\* f"{file_stem}_redacted.json" in Config.OUTPUT_DIR
redacted_json == "_redacted.json"

\* _process_json_file on a file holding document d: the file written, the
\* result returned and the exception raised.  `readable` is whether the
\* input opens, `writable` whether the output file can be written.
\* save_json is the part after the recursion.
save_json(r, writable) ==
    IF ~writable
    THEN [output |-> <<>>, result |-> <<>>, raised |-> "save"]
    ELSE [output |-> <<r.value>>,
          result |-> <<[file_type |-> "json",
                        sensitive_items |-> r.matches,
                        output_files |-> <<redacted_json>>,
                        redaction_applied |-> Len(r.matches) > 0]>>,
          raised |-> "none"]
process_json_file(d, readable, writable) ==
    IF ~readable
    THEN [output |-> <<>>, result |-> <<>>, raised |-> "load"]
    ELSE save_json(redact_json_recursive(d, <<>>), writable)

\* What the handler leaves behind
JsonHandlerLeaves(h) ==
    /\ json_output' = h.output
    /\ json_result' = h.result
    /\ json_raised' = h.raised

ProcessJson ==
    /\ pc = "process_json"
    /\ \E readable \in BOOLEAN, writable \in BOOLEAN :
          JsonHandlerLeaves(process_json_file(data, readable, writable))
    /\ pc' = "json_processed"
    /\ UNCHANGED <<data, restOfJson>>

\* The documents processed: every tree of at most MaxNodes values over these
\* leaves and keys
JsonStrings == {<<"a", "@", "b", ".", "c", "o", "m">>, <<"-">>}
JsonLeaves == {JStr(s) : s \in JsonStrings} \cup {JNum(5), JBool(TRUE), JNull}
JsonKeys == {email, <<"i", "d">>}
KeySeqs(n) ==
    {ks \in [1..n -> JsonKeys] : \A i, j \in 1..n : i # j => ks[i] # ks[j]}
JsonDicts(f) ==
    {JDict([i \in 1..Len(f) |-> [key |-> ks[i], value |-> f[i]]]) :
        ks \in KeySeqs(Len(f))}

RECURSIVE TreesOfSize(_)
RECURSIVE Forests(_)
\* The sequences of documents of m values in all
Forests(m) ==
    IF m = 0 THEN {<<>>}
    ELSE UNION {{<<t>> \o f : t \in TreesOfSize(k), f \in Forests(m - k)} :
                   k \in 1..m}
\* The documents of exactly n values
TreesOfSize(n) ==
    (IF n = 1 THEN JsonLeaves ELSE {})
      \cup {JList(f) : f \in Forests(n - 1)}
      \cup UNION {JsonDicts(f) : f \in Forests(n - 1)}
JsonDocs == UNION {TreesOfSize(n) : n \in 1..MaxNodes}

InitJson ==
    /\ pc = "process_json"
    /\ data \in JsonDocs
    /\ json_output = <<>> /\ json_result = <<>> /\ json_raised = "none"
    /\ IdleRestOfJson

NextJson == ProcessJson
SpecJson == InitJson /\ [][NextJson]_vars

RECURSIVE TreePreserved(_, _)
\* `out` is `in` with the same containers, keys and order, the same
\* non-string leaves, and each string leaf kept or replaced by the placeholder
\* according to whether detection finds a span in it
TreePreserved(in, out) ==
    /\ out.kind = in.kind
    /\ CASE in.kind = "str" ->
              out.val = IF detect_in_text(in.val) # <<>> THEN REDACTED
                        ELSE in.val
         [] in.kind = "list" ->
              /\ Len(out.val) = Len(in.val)
              /\ \A i \in 1..Len(in.val) : TreePreserved(in.val[i], out.val[i])
         [] in.kind = "dict" ->
              /\ Len(out.val) = Len(in.val)
              /\ \A i \in 1..Len(in.val) :
                    /\ out.val[i].key = in.val[i].key
                    /\ TreePreserved(in.val[i].value, out.val[i].value)
         [] OTHER -> out.val = in.val

\* {"email": "a@b.com", "id": 5} and {"email": "[REDACTED]", "id": 5}
ExampleDoc ==
    JDict(<<[key |-> email, value |-> JStr(<<"a", "@", "b", ".", "c", "o", "m">>)],
            [key |-> <<"i", "d">>, value |-> JNum(5)]>>)
ExampleRedacted ==
    JDict(<<[key |-> email, value |-> JStr(REDACTED)],
            [key |-> <<"i", "d">>, value |-> JNum(5)]>>)

\* C10: the JSON file written has the same keys, list lengths and element
\* order as the input; number, boolean and null leaves are unchanged; a string
\* leaf is exactly "[REDACTED]" if detection returns a span for it and is
\* unchanged otherwise; keys are not scanned or altered.  {"email":
\* "a@b.com", "id": 5} becomes {"email": "[REDACTED]", "id": 5}.
C10_JsonTreePreserved ==
    (pc = "json_processed" /\ json_raised = "none") =>
        /\ json_output # <<>>
        /\ TreePreserved(data, json_output[1])
        /\ (data = ExampleDoc => json_output[1] = ExampleRedacted)

\* The example document has been processed; both of its keys are texts in
\* which detection finds a span, and they are written as they were
C10_Witness ==
    /\ pc = "json_processed" /\ json_raised = "none"
    /\ data = ExampleDoc
    /\ json_output = <<ExampleRedacted>>
    /\ \A i \in 1..Len(data.val) : detect_in_text(data.val[i].key) # <<>>

(***************************************************************************)
(* The CSV handler: UniversalFileProcessor._process_csv_file.  A CSV file  *)
(* is the sequence of rows csv.reader yields for it, each row a sequence   *)
(* of cell texts; csv.writer writes rows that csv.reader reads back as     *)
(* they were.                                                              *)
(***************************************************************************)
MaxCsvRows == 2     \* most data rows in a CSV file
MaxCsvCells == 2    \* most cells in a row drawn over CsvCellTexts

\* The loop body over one cell: the cell written and the matches it adds
redact_cell(cell) ==
    IF detect_in_text(cell) # <<>>
    THEN [cell |-> REDACTED, matches |-> detect_in_text(cell)]
    ELSE [cell |-> cell, matches |-> <<>>]

\* redacted_row.append(...); result['sensitive_items'].extend(matches),
\* followed by what the rest of the row adds
CellStep(c, rest) ==
    [cells |-> <<c.cell>> \o rest.cells, matches |-> c.matches \o rest.matches]

\* The inner loop from the k-th cell of `row` on
RECURSIVE redact_row(_, _)
redact_row(row, k) ==
    IF k > Len(row) THEN [cells |-> <<>>, matches |-> <<>>]
    ELSE CellStep(redact_cell(row[k]), redact_row(row, k + 1))

\* rows.append(redacted_row); result['rows_processed'] += 1, followed by
\* what the rest of the file adds
RowStep(r, rest) ==
    [rows |-> <<r.cells>> \o rest.rows, matches |-> r.matches \o rest.matches]

\* The outer loop from the k-th row of the file on (the header is row 1)
RECURSIVE redact_rows(_, _)
redact_rows(file, k) ==
    IF k > Len(file) THEN [rows |-> <<>>, matches |-> <<>>]
    ELSE RowStep(redact_row(file[k], 1), redact_rows(file, k + 1))

\* headers = next(reader, None): None for a file without rows and [] for a
\* blank first line are both written <<>>, since only `if headers` reads it
csv_headers(file) == IF file = <<>> THEN <<>> ELSE file[1]

redacted_csv == "_redacted.csv"

\* The part of the handler after the reading loop
save_csv(headers, r, writable) ==
    IF ~writable
    THEN [output |-> <<>>, result |-> <<>>, raised |-> "save"]
    ELSE [output |-> <<(IF headers # <<>> THEN <<headers>> ELSE <<>>) \o r.rows>>,
          result |-> <<[file_type |-> "csv",
                        rows_processed |-> Len(r.rows),
                        sensitive_items |-> r.matches,
                        output_files |-> <<redacted_csv>>,
                        redaction_applied |-> Len(r.matches) > 0]>>,
          raised |-> "none"]

\* _process_csv_file on a file of the given rows; `readable` is whether the
\* input opens, `writable` whether the output file can be written
process_csv_file(file, readable, writable) ==
    IF ~readable
    THEN [output |-> <<>>, result |-> <<>>, raised |-> "load"]
    ELSE save_csv(csv_headers(file), redact_rows(file, 2), writable)

CsvHandlerLeaves(h) ==
    /\ csv_output' = h.output
    /\ csv_result' = h.result
    /\ csv_raised' = h.raised

ProcessCsv ==
    /\ pc = "process_csv"
    /\ \E readable \in BOOLEAN, writable \in BOOLEAN :
          CsvHandlerLeaves(process_csv_file(csv_file, readable, writable))
    /\ pc' = "csv_processed"
    /\ UNCHANGED <<csv_file, restOfCsv>>

\* The files processed: no row at all, or a header (blank, or with cells in
\* which detection would find a span) and data rows over a detected and an
\* undetected cell text and the row ["Paul Smith", "4111111111111111", "ok"]
PaulSmith == <<"P", "a", "u", "l", " ", "S", "m", "i", "t", "h">>
CardNumber ==
    <<"4", "1", "1", "1", "1", "1", "1", "1", "1", "1", "1", "1", "1", "1", "1", "1">>
Ok == <<"o", "k">>
ExampleRow == <<PaulSmith, CardNumber, Ok>>
CsvCellTexts == {Ok, <<"-">>}
CsvHeaders == {<<>>, <<<<"n", "a", "m", "e">>>>, <<<<"n", "a", "m", "e">>, Ok, Ok>>}
CsvRows == SeqsUpTo(CsvCellTexts, MaxCsvCells) \cup {ExampleRow}
CsvFiles ==
    {<<>>} \cup {<<h>> \o rows : h \in CsvHeaders, rows \in SeqsUpTo(CsvRows, MaxCsvRows)}

InitCsv ==
    /\ pc = "process_csv"
    /\ csv_file \in CsvFiles
    /\ csv_output = <<>> /\ csv_result = <<>> /\ csv_raised = "none"
    /\ IdleRestOfCsv

NextCsv == ProcessCsv
SpecCsv == InitCsv /\ [][NextCsv]_vars

\* The rows of the written file that follow the header
WrittenDataRows ==
    IF csv_headers(csv_file) # <<>> THEN Tail(csv_output[1]) ELSE csv_output[1]

\* C11: the CSV written has the header row as it was, without scanning it,
\* as many data rows and as many cells per row as the input, and in each data
\* row the placeholder in exactly the cells with sensitive data; for the data
\* row ["Paul Smith", "4111111111111111", "ok"] exactly the card-number cell
\* is replaced and "ok" is left as it is.
C11_CsvCellsRedacted ==
    (pc = "csv_processed" /\ csv_raised = "none" /\ csv_file # <<>>) =>
        /\ csv_headers(csv_file) # <<>> => csv_output[1][1] = csv_file[1]
        /\ Len(WrittenDataRows) = Len(csv_file) - 1
        /\ \A i \in 1..Len(WrittenDataRows) :
              /\ Len(WrittenDataRows[i]) = Len(csv_file[i + 1])
              /\ \A j \in 1..Len(WrittenDataRows[i]) :
                    WrittenDataRows[i][j] =
                        IF detect_in_text(csv_file[i + 1][j]) # <<>> THEN REDACTED
                        ELSE csv_file[i + 1][j]
              /\ csv_file[i + 1] = ExampleRow =>
                    WrittenDataRows[i] = <<PaulSmith, REDACTED, Ok>>

(***************************************************************************)
(* The batch: UniversalFileCleanser.process_files, _process_files_parallel *)
(* , _process_files_sequential and _process_single_file (main.py), with    *)
(* UniversalFileProcessor.detect_file_type and process_file.               *)
(*                                                                         *)
(* A file of the batch is a record of its lower-cased suffix `ext`, of     *)
(* whether its size exceeds the limit, and of the one thing that goes      *)
(* wrong while it is processed (`fault`): "read" (the handler cannot open  *)
(* it), "ocr" (the OCR engine raises), "codec" (the image does not         *)
(* decode), "metadata" (the metadata file cannot be written), or "none".   *)
(*                                                                         *)
(* Each update of a statistic, stats[k] += n, is a load followed by a      *)
(* store: the worker threads share `stats` without a lock, and another     *)
(* thread may run between the two.                                         *)
(***************************************************************************)
MaxFiles == 2     \* most files in a batch

MAX_WORKERS == 4

SUPPORTED_IMAGE_FORMATS ==
    {".png", ".jpg", ".jpeg", ".bmp", ".tiff", ".tif", ".webp", ".gif",
     ".ico", ".ppm", ".pgm"}
SUPPORTED_TEXT_FORMATS == {".txt", ".log", ".csv", ".tsv", ".md", ".rst"}

\* detect_file_type, given the lower-cased suffix
detect_file_type(ext) ==
    IF ext \in SUPPORTED_IMAGE_FORMATS THEN "image"
    ELSE IF ext \in {".json"} THEN "json"
    ELSE IF ext \in {".xml"} THEN "xml"
    ELSE IF ext \in {".xlsx", ".xls", ".ods"} THEN "excel"
    ELSE IF ext \in {".pdf"} THEN "pdf"
    ELSE IF ext \in {".csv"} THEN "csv"
    ELSE IF ext \in SUPPORTED_TEXT_FORMATS THEN "text"
    ELSE "unknown"

FileTypes == {"image", "text", "json", "xml", "excel", "pdf", "csv", "unknown"}

\* What a call of a handler amounts to for _process_single_file: whether it
\* raised, how many sensitive items its result lists, which files it wrote
CsvOutcome(h) ==
    [raised |-> h.raised # "none", called |-> TRUE,
     items |-> IF h.result = <<>> THEN 0 ELSE Len(h.result[1].sensitive_items),
     written |-> IF h.output # <<>> THEN {redacted_csv} ELSE {}]
ImageOutcome(s) ==
    [raised |-> s.raised # "none", called |-> TRUE,
     items |-> IF s.result = <<>> THEN 0 ELSE Len(s.result[1].sensitive_items),
     written |-> (IF s.text_output # <<>> THEN {redacted_txt} ELSE {})
                 \cup (IF s.output = NoImage THEN {}
                       ELSE IF s.sensitive_boxes # <<>> THEN {redacted_png}
                       ELSE {processed_png})]

\* The image files of a batch show the digit 1 in one word box; the CSV
\* files hold a header and the row Paul Smith,4111111111111111,ok
BatchCsv == <<<<<<"n", "a", "m", "e">>>>, ExampleRow>>
BatchImageBox == [text |-> <<"1">>, x |-> 0, y |-> 0, w |-> 2, h |-> 1]

\* self.processors[file_type](file_path, ...) for the handlers modelled
call_handler(f) ==
    IF detect_file_type(f.ext) = "csv"
    THEN CsvOutcome(process_csv_file(BatchCsv, f.fault # "read", TRUE))
    ELSE ImageOutcome(
             process_image(IF f.fault \in {"codec", "read"} THEN NoImage
                           ELSE OriginalImage,
                           <<"1">>, <<BatchImageBox>>, "blur",
                           [engine_ok |-> f.fault # "ocr",
                            text_writable |-> TRUE, image_writable |-> TRUE],
                           <<FALSE>>).saved)

\* process_file handing every suffix to the image handler
process_file_any_type(f) == call_handler(f)

\* UniversalFileProcessor.process_file
process_file(f) ==
    IF detect_file_type(f.ext) = "unknown"
    THEN [raised |-> TRUE, called |-> FALSE, items |-> 0, written |-> {}]
    ELSE call_handler(f)

\* self.stats as __init__ leaves it and process_files starts it
\* (errors: the indices of the files with an entry, in order of appending)
InitialStats(n) ==
    [total_files |-> n, files_processed |-> 0, files_failed |-> 0,
     files_skipped |-> 0, by_type |-> [t \in FileTypes |-> 0],
     sensitive_items_found |-> 0, errors |-> <<>>]

\* A file no thread has taken up yet
Queued ==
    [pc |-> "queued", tmp |-> 0, status |-> "none", attempts |-> 0,
     handler_calls |-> 0, items |-> 0, written |-> {}, counted |-> {}]

Terminal(i) == task[i].pc = "done"
Active(i) == task[i].pc \notin {"queued", "done"}

\* process_files: worker threads iff multithreading is on and there is more
\* than one file
parallel == use_multithreading /\ Len(batch) > 1

\* The loop over the files giving up at the first file that failed
ScheduledUntilFailure(i) ==
    IF parallel
    THEN task[i].pc = "queued" =>
             /\ \A j \in 1..(i - 1) : task[j].pc # "queued"
             /\ Cardinality({j \in 1..Len(batch) : Active(j)}) < MAX_WORKERS
    ELSE \A j \in 1..(i - 1) : Terminal(j) /\ task[j].status # "failed"

\* May file i take its next step?  Sequentially the files are processed one
\* after the other; the executor starts the submitted tasks in order, on at
\* most MAX_WORKERS threads
Scheduled(i) ==
    IF parallel
    THEN task[i].pc = "queued" =>
             /\ \A j \in 1..(i - 1) : task[j].pc # "queued"
             /\ Cardinality({j \in 1..Len(batch) : Active(j)}) < MAX_WORKERS
    ELSE \A j \in 1..(i - 1) : Terminal(j)

\* _process_single_file handing a file to the processor whatever its size
begin_without_size_check(t, f, r) ==
    [t EXCEPT !.pc = IF r.raised THEN "load_failed" ELSE "load_processed",
              !.attempts = @ + 1,
              !.handler_calls = @ + (IF r.called THEN 1 ELSE 0),
              !.items = r.items,
              !.written = @ \cup r.written]

\* _process_single_file up to its first use of the statistics: the size
\* check, then the processor (r: what process_file does with the file)
begin(t, f, r) ==
    IF f.too_large THEN [t EXCEPT !.pc = "load_skipped", !.attempts = @ + 1]
    ELSE [t EXCEPT !.pc = IF r.raised THEN "load_failed" ELSE "load_processed",
                   !.attempts = @ + 1,
                   !.handler_calls = @ + (IF r.called THEN 1 ELSE 0),
                   !.items = r.items,
                   !.written = @ \cup r.written]

\* The files of the batches explored
File(ext, too_large, fault) == [ext |-> ext, too_large |-> too_large, fault |-> fault]
BatchFiles ==
    {File(".csv", FALSE, "none"), File(".csv", TRUE, "none"),
     File(".csv", FALSE, "read"), File(".csv", FALSE, "metadata"),
     File(".png", FALSE, "ocr"),
     File(".png", FALSE, "codec"),
     File(".docx", FALSE, "none"), File(".docx", TRUE, "none")}

\* process_file on each of these files
processed == [f \in BatchFiles |-> process_file(f)]

Begin(i) ==
    /\ pc = "batch"
    /\ i \in 1..Len(batch)
    /\ task[i].pc = "queued"
    /\ Scheduled(i)
    /\ task' = [task EXCEPT ![i] = begin(task[i], batch[i], processed[batch[i]])]
    /\ UNCHANGED <<pc, batch, use_multithreading, stats, restOfBatch>>

\* The statistic a task at `p` is about to read or write
Counter(p) ==
    CASE p \in {"load_skipped", "store_skipped"} -> "files_skipped"
      [] p \in {"load_processed", "store_processed"} -> "files_processed"
      [] p \in {"load_by_type", "store_by_type"} -> "by_type"
      [] p \in {"load_items", "store_items"} -> "sensitive_items_found"
      [] p \in {"load_failed", "store_failed"} -> "files_failed"

LoadPcs == {"load_skipped", "load_processed", "load_by_type", "load_items", "load_failed"}
StorePcs == {"store_skipped", "store_processed", "store_by_type", "store_items", "store_failed"}

StoreOf(p) ==
    CASE p = "load_skipped" -> "store_skipped"
      [] p = "load_processed" -> "store_processed"
      [] p = "load_by_type" -> "store_by_type"
      [] p = "load_items" -> "store_items"
      [] p = "load_failed" -> "store_failed"

\* The value of the statistic `k` that concerns a file of type `ty`
Read(s, k, ty) == IF k = "by_type" THEN s.by_type[ty] ELSE s[k]

\* The first half of stats[k] += n: the thread reads the current value
Load(i) ==
    /\ pc = "batch"
    /\ i \in 1..Len(batch)
    /\ task[i].pc \in LoadPcs
    /\ Scheduled(i)
    /\ task' = [task EXCEPT ![i].pc = StoreOf(task[i].pc),
                            ![i].tmp = Read(stats, Counter(task[i].pc), detect_file_type(batch[i].ext))]
    /\ UNCHANGED <<pc, batch, use_multithreading, stats, restOfBatch>>

\* What the second half of an update does to the statistics, for file i of
\* type ty whose task t has read t.tmp
store(s, t, i, ty) ==
    CASE t.pc = "store_skipped" -> [s EXCEPT !.files_skipped = t.tmp + 1]
      [] t.pc = "store_processed" -> [s EXCEPT !.files_processed = t.tmp + 1]
      [] t.pc = "store_by_type" -> [s EXCEPT !.by_type[ty] = t.tmp + 1]
      [] t.pc = "store_items" -> [s EXCEPT !.sensitive_items_found = t.tmp + t.items]
      [] t.pc = "store_failed" ->
             [s EXCEPT !.files_failed = t.tmp + 1, !.errors = Append(@, i)]

\* ... and to the task: skipped and failed files are finished
after_store(t) ==
    CASE t.pc = "store_skipped" -> [t EXCEPT !.pc = "done", !.status = "skipped"]
      [] t.pc = "store_processed" -> [t EXCEPT !.pc = "load_by_type"]
      [] t.pc = "store_by_type" -> [t EXCEPT !.pc = "load_items"]
      [] t.pc = "store_items" -> [t EXCEPT !.pc = "save_metadata"]
      [] t.pc = "store_failed" -> [t EXCEPT !.pc = "done", !.status = "failed"]

\* The task has made its update: the value it read is dropped
Counted(t) == [t EXCEPT !.counted = @ \cup {Counter(t.pc)}, !.tmp = 0]

\* The second half of stats[k] += n: the thread writes the value it read,
\* plus n
Store(i) ==
    /\ pc = "batch"
    /\ i \in 1..Len(batch)
    /\ task[i].pc \in StorePcs
    /\ Scheduled(i)
    /\ stats' = store(stats, task[i], i, detect_file_type(batch[i].ext))
    /\ task' = [task EXCEPT ![i] = after_store(Counted(task[i]))]
    /\ UNCHANGED <<pc, batch, use_multithreading, restOfBatch>>

metadata_json == "_metadata.json"

\* _save_file_metadata and the return of the success record; a failure to
\* write the metadata file is caught by _process_single_file's handler
save_file_metadata(t, f) ==
    IF f.fault = "metadata" THEN [t EXCEPT !.pc = "load_failed"]
    ELSE [t EXCEPT !.pc = "done", !.status = "success",
                   !.written = @ \cup {metadata_json}]

SaveMetadata(i) ==
    /\ pc = "batch"
    /\ i \in 1..Len(batch)
    /\ task[i].pc = "save_metadata"
    /\ Scheduled(i)
    /\ task' = [task EXCEPT ![i] = save_file_metadata(task[i], batch[i])]
    /\ UNCHANGED <<pc, batch, use_multithreading, stats, restOfBatch>>

\* process_files after the last file: the summary
Finish ==
    /\ pc = "batch"
    /\ \A i \in 1..Len(batch) : Terminal(i)
    /\ pc' = "batch_done"
    /\ UNCHANGED <<batchVars, restOfBatch>>

InitBatch ==
    /\ pc = "batch"
    /\ batch \in UNION {[1..k -> BatchFiles] : k \in 1..MaxFiles}
    /\ use_multithreading \in BOOLEAN
    /\ task = [i \in 1..Len(batch) |-> Queued]
    /\ stats = InitialStats(Len(batch))
    /\ IdleRestOfBatch

NextBatch ==
    \/ \E i \in 1..MaxFiles : Begin(i) \/ Load(i) \/ Store(i) \/ SaveMetadata(i)
    \/ Finish

SpecBatch == InitBatch /\ [][NextBatch]_vars

\* The number of entries of stats['errors'] that are about file i
ErrorEntries(i) == Cardinality({k \in 1..Len(stats.errors) : stats.errors[k] = i})

Unsupported(f) == detect_file_type(f.ext) = "unknown"

\* process_file on a file of unknown type: the error, and nothing else
FailsFast(f) ==
    Unsupported(f) =>
        process_file(f) = [raised |-> TRUE, called |-> FALSE, items |-> 0, written |-> {}]

\* A finished file that failed without a handler call, a detection or an
\* output file, counted as failed once and with one error entry
FailedUnprocessed(i) ==
    /\ task[i].status = "failed"
    /\ task[i].handler_calls = 0
    /\ task[i].items = 0
    /\ task[i].written = {}
    /\ task[i].counted = {"files_failed"}
    /\ ErrorEntries(i) = 1

\* C12: for a path whose extension maps to no handler, process_file fails
\* with the unsupported-format error before any handler runs, any detection
\* is attempted or any output file is written; in a batch that file ends
\* counted as failed with one error entry and no output artifact.
C12_UnsupportedFailsFast ==
    /\ \A f \in BatchFiles : FailsFast(f)
    /\ \A i \in 1..Len(batch) :
           Unsupported(batch[i]) /\ Terminal(i) => FailedUnprocessed(i)

\* C12 as the code has it: the same, for a file that does not exceed
\* MAX_FILE_SIZE_MB; a larger file is skipped before process_file is called
C12_UnsupportedFailsFastUnlessSkipped ==
    /\ \A f \in BatchFiles : FailsFast(f)
    /\ \A i \in 1..Len(batch) :
           Unsupported(batch[i]) /\ ~batch[i].too_large /\ Terminal(i)
               => FailedUnprocessed(i)

\* A batch has finished in which a file of unknown type, small enough, was
\* attempted next to a file that was processed
C12_Witness ==
    /\ pc = "batch_done"
    /\ \E i, j \in 1..Len(batch) :
          /\ Unsupported(batch[i]) /\ ~batch[i].too_large
          /\ task[i].attempts = 1 /\ task[i].status = "failed"
          /\ task[j].status = "success"

\* The files whose task has carried out its update of the statistic k
Updated(k) == {i \in 1..Len(batch) : k \in task[i].counted}

\* The sensitive items of the files 1..n that added theirs to the total
RECURSIVE ItemsAdded(_)
ItemsAdded(n) ==
    IF n = 0 THEN 0
    ELSE ItemsAdded(n - 1)
         + (IF n \in Updated("sensitive_items_found") THEN task[n].items ELSE 0)

\* Every statistic is the sum of the increments the tasks made to it
StatsExact ==
    /\ stats.files_processed = Cardinality(Updated("files_processed"))
    /\ stats.files_failed = Cardinality(Updated("files_failed"))
    /\ stats.files_skipped = Cardinality(Updated("files_skipped"))
    /\ \A ty \in FileTypes :
           stats.by_type[ty] =
               Cardinality({i \in Updated("by_type") : detect_file_type(batch[i].ext) = ty})
    /\ stats.sensitive_items_found = ItemsAdded(Len(batch))

\* C13: when a batch is processed by the worker pool, the shared statistics
\* are correct at completion for every interleaving of the workers: no
\* increment made by one worker is lost or overwritten by another.
C13_ParallelStatsExact == parallel /\ pc = "batch_done" => StatsExact

\* The batch with its scheduling: the loop of _process_files_sequential goes
\* on to the next file when _process_single_file returns, the executor's
\* threads are run by the interpreter, and every step of a file terminates,
\* so a step that can be taken is taken eventually
SpecBatchLive == InitBatch /\ [][NextBatch]_vars /\ WF_vars(NextBatch)

\* File i was attempted once and has a terminal status; if it failed, the
\* error list has one entry about it
AttemptedOnce(i) ==
    /\ task[i].attempts = 1
    /\ task[i].status \in {"success", "failed", "skipped"}
    /\ task[i].status = "failed" => ErrorEntries(i) = 1

\* C14: a failure while processing one file never aborts the batch: in
\* sequential and in parallel mode every file of the batch is eventually
\* attempted exactly once and reaches a terminal status (success, failed or
\* skipped) regardless of failures of other files; a failed file adds
\* exactly one entry to the error list and is never retried.
C14_EveryFileAttemptedOnce ==
    /\ <>(pc = "batch_done")
    /\ [](\A i \in 1..Len(batch) : task[i].attempts <= 1 /\ ErrorEntries(i) <= 1)
    /\ [](pc = "batch_done" => \A i \in 1..Len(batch) : AttemptedOnce(i))

\* A batch has finished whose first file failed and whose second file was
\* processed after it
C14_Witness ==
    /\ pc = "batch_done"
    /\ Len(batch) = 2
    /\ task[1].status = "failed" /\ ErrorEntries(1) = 1
    /\ task[2].status = "success" /\ task[2].attempts = 1

\* File i was counted both as processed and as failed
CountedTwice(i) == {"files_processed", "files_failed"} \subseteq task[i].counted

\* C15: in a batch processed sequentially by a fresh cleanser, every file
\* is counted in exactly one of files_processed, files_failed and
\* files_skipped, so that after process_files returns files_processed +
\* files_failed + files_skipped = total_files; no file is counted both as
\* processed and as failed, whatever step of its processing raises.
C15_EveryFileCountedOnce ==
    ~parallel /\ pc = "batch_done" =>
        /\ stats.files_processed + stats.files_failed + stats.files_skipped
               = stats.total_files
        /\ \A i \in 1..Len(batch) : ~CountedTwice(i)

\* While and after a file larger than the limit is handled: no handler
\* call, no file written, no failure counted and no error entry for it
NeverProcessed(i) ==
    /\ task[i].handler_calls = 0
    /\ task[i].written = {}
    /\ "files_failed" \notin task[i].counted
    /\ ErrorEntries(i) = 0

\* C16: a file whose size exceeds MAX_FILE_SIZE_MB is rejected before any
\* processing of it begins: no handler is invoked, no output or metadata
\* file is written for it, files_skipped is incremented, and neither
\* files_failed nor the error list changes.
C16_OversizeSkipped ==
    \A i \in 1..Len(batch) :
        batch[i].too_large =>
            /\ NeverProcessed(i)
            /\ Terminal(i) =>
                   task[i].status = "skipped" /\ task[i].counted = {"files_skipped"}
            /\ ~parallel /\ pc = "batch_done" =>
                   /\ stats.files_skipped = Cardinality({j \in 1..Len(batch) : batch[j].too_large})
                   /\ \A k \in 1..Len(stats.errors) : stats.errors[k] # i

\* A sequential batch has finished in which a file over the limit was
\* skipped and the other file was processed
C16_Witness ==
    /\ pc = "batch_done" /\ ~parallel
    /\ \E i, j \in 1..Len(batch) :
          /\ batch[i].too_large /\ ~Unsupported(batch[i])
          /\ task[i].attempts = 1 /\ task[i].status = "skipped"
          /\ task[j].status = "success"
    /\ stats.files_skipped = 1 /\ stats.files_failed = 0 /\ stats.errors = <<>>

\* A collaborator of the handler failed while file i was processed: the OCR
\* engine raised, or the image did not decode
CollaboratorFailed(i) == batch[i].fault \in {"ocr", "codec"}

\* C17: whenever the OCR, image-codec or PDF-rasterizer collaborator fails
\* while a file is being processed, that file ends with status failed
\* (counted in files_failed with an error entry) and is never reported as a
\* success with an output artifact.
C17_CollaboratorFailureFailsFile ==
    \A i \in 1..Len(batch) :
        CollaboratorFailed(i) /\ Terminal(i) =>
            /\ task[i].status = "failed"
            /\ "files_failed" \in task[i].counted
            /\ ErrorEntries(i) = 1
            /\ ~(task[i].status = "success" /\ task[i].written # {})

(***************************************************************************)
(* The PDF handler: UniversalFileProcessor._process_pdf_file               *)
(* (universal_processor.py), called from the command line or, on the       *)
(* temporary copy of an upload, from the backend's analyze_files           *)
(* (backend/main.py).                                                      *)
(*                                                                         *)
(* A page is a record of what OCR reads on its raster: the text, the       *)
(* number of word boxes (words read with confidence above 30), the number  *)
(* of regions detect_large_regions_for_redaction makes of these boxes, and *)
(* what goes wrong on the page (`fault`): "ocr" (the engine raises),       *)
(* "redact" (redact_image raises), "save" (the page image cannot be        *)
(* written), or "none".                                                    *)
(***************************************************************************)
MaxPages == 2     \* most pages of a PDF file

SECURE_DELETE_TEMP_FILES == TRUE

\* extract_from_image on the page's raster: a failure of the engine is
\* caught there and gives no text and no boxes
page_text(p) == IF p.fault = "ocr" THEN <<>> ELSE p.text
page_boxes(p) == IF p.fault = "ocr" THEN 0 ELSE p.boxes
page_regions(p) == IF p.fault = "ocr" THEN 0 ELSE p.regions

\* `if matches or bounding_boxes:`
emits(p, matches) == matches # <<>> \/ page_boxes(p) > 0

\* Does writing the page's image raise?  redact_image is used when there
\* are regions, image.save otherwise
emit_raises(p) ==
    IF page_regions(p) > 0 THEN p.fault = "redact" ELSE p.fault = "save"

\* The dict `result` as created, and after page n
new_pdf_result ==
    [file_type |-> "pdf", pages_processed |-> 0, sensitive_items |-> <<>>,
     output_files |-> <<>>]
result_after_page(r, n, matches, emitted) ==
    [r EXCEPT !.sensitive_items = @ \o matches,
              !.output_files = IF emitted THEN Append(@, n) ELSE @,
              !.pages_processed = @ + 1]

\* The end of an iteration of the loop that did not raise: os.remove of the
\* page's raster, pages_processed += 1
end_page(n, matches, emitted) ==
    /\ temp_files' = IF SECURE_DELETE_TEMP_FILES THEN temp_files \ {n}
                     ELSE temp_files \cup {n}
    /\ pdf_files' = IF emitted THEN pdf_files \cup {n} ELSE pdf_files
    /\ pdf_result' = <<result_after_page(pdf_result[1], n, matches, emitted)>>
    /\ page_num' = n + 1
    /\ UNCHANGED <<pc, pdf_raised>>

\* An iteration that raises while it writes the page's image: the handler
\* is left at once, the raster saved at the top of the iteration stays
page_raises(p, n, matches) ==
    /\ temp_files' = temp_files \cup {n}
    /\ pdf_raised' = p.fault
    /\ pc' = "pdf_processed"
    /\ pdf_result' = <<[pdf_result[1] EXCEPT !.sensitive_items = @ \o matches]>>
    /\ UNCHANGED <<pdf_files, page_num>>

\* convert_from_path and the lines before the loop
OpenPdf ==
    /\ pc = "process_pdf"
    /\ IF rasterizer = "missing"
       THEN /\ pdf_result' = <<[file_type |-> "pdf", error |-> "pdf2image not available"]>>
            /\ pc' = "pdf_processed"
            /\ UNCHANGED <<page_num, pdf_raised>>
       ELSE IF rasterizer = "fails"
       THEN /\ pdf_raised' = "convert"
            /\ pc' = "pdf_processed"
            /\ UNCHANGED <<page_num, pdf_result>>
       ELSE /\ pdf_result' = <<new_pdf_result>>
            /\ page_num' = 1
            /\ pc' = "pdf_pages"
            /\ UNCHANGED pdf_raised
    /\ UNCHANGED <<pdf_pages, rasterizer, via_backend, upload_copy, temp_files, pdf_files, restOfPdf>>

\* What the iteration for page n does, given what detection finds on it
page_step(p, n, matches) ==
    IF emits(p, matches) /\ emit_raises(p)
    THEN page_raises(p, n, matches)
    ELSE end_page(n, matches, emits(p, matches))

\* One iteration of the loop over the pages
ProcessPage ==
    /\ pc = "pdf_pages"
    /\ page_num <= Len(pdf_pages)
    /\ page_step(pdf_pages[page_num], page_num,
                 detect_in_text(clean_text(page_text(pdf_pages[page_num]))))
    /\ UNCHANGED <<pdf_pages, rasterizer, via_backend, upload_copy, restOfPdf>>

\* After the last page: redaction_applied, and the return
ReturnPdf ==
    /\ pc = "pdf_pages"
    /\ page_num > Len(pdf_pages)
    /\ pdf_result' = <<[file_type |-> "pdf",
                        pages_processed |-> pdf_result[1].pages_processed,
                        sensitive_items |-> pdf_result[1].sensitive_items,
                        output_files |-> pdf_result[1].output_files,
                        redaction_applied |-> Len(pdf_result[1].sensitive_items) > 0]>>
    /\ pc' = "pdf_processed"
    /\ UNCHANGED <<pdf_pages, rasterizer, via_backend, upload_copy, page_num, temp_files, pdf_files, pdf_raised, restOfPdf>>

\* analyze_files, for one upload: the temporary copy is created and the
\* upload is read and written to it; if that raises, the request ends here
SaveUpload ==
    /\ pc = "upload"
    /\ upload_copy' = TRUE
    /\ \E saved \in BOOLEAN : pc' = IF saved THEN "process_pdf" ELSE "request_failed"
    /\ UNCHANGED <<pdf_pages, rasterizer, via_backend, page_num, temp_files, pdf_files, pdf_result, pdf_raised, restOfPdf>>

\* analyze_files after the analysis returned or raised: the finally clause
\* removes the copy
CleanUpUpload ==
    /\ pc = "pdf_processed"
    /\ via_backend
    /\ upload_copy' = FALSE
    /\ pc' = "responded"
    /\ UNCHANGED <<pdf_pages, rasterizer, via_backend, page_num, temp_files, pdf_files, pdf_result, pdf_raised, restOfPdf>>

\* The pages explored: a blank page, a page with an undetected word, a
\* page with a detected word, and a page whose detected word was read with
\* too little confidence to get a box
Page(t, b, r, f) == [text |-> t, boxes |-> b, regions |-> r, fault |-> f]
PageFaults == {"none", "ocr", "redact", "save"}
Pages ==
    {Page(<<>>, 0, 0, f) : f \in PageFaults}
    \cup {Page(<<"-">>, 1, 0, f) : f \in PageFaults}
    \cup {Page(<<"E", "1">>, 1, 1, f) : f \in PageFaults}
    \cup {Page(<<"E", "1">>, 0, 0, f) : f \in PageFaults}

InitPdf ==
    /\ pdf_pages \in SeqsUpTo(Pages, MaxPages)
    /\ rasterizer \in {"ok", "missing", "fails"}
    /\ via_backend \in BOOLEAN
    /\ pc = IF via_backend THEN "upload" ELSE "process_pdf"
    /\ upload_copy = FALSE
    /\ page_num = 0
    /\ temp_files = {}
    /\ pdf_files = {}
    /\ pdf_result = <<>>
    /\ pdf_raised = "none"
    /\ IdleRestOfPdf

NextPdf == SaveUpload \/ OpenPdf \/ ProcessPage \/ ReturnPdf \/ CleanUpUpload

SpecPdf == InitPdf /\ [][NextPdf]_vars

\* _process_pdf_file has returned or raised
PdfEnded == pc \in {"pdf_processed", "responded"}

\* The backend's request for the upload is over
RequestEnded == pc \in {"responded", "request_failed"}

\* C18: every temporary artifact created while a file is processed (each
\* per-page PDF raster in TEMP_DIR with secure-delete enabled, and the
\* backend's upload copy) has been deleted by the time processing of that
\* file ends, on the success path and on every failure path, including a
\* failure of OCR, detection or redaction in the middle of a page.
C18_TempArtifactsDeleted ==
    /\ SECURE_DELETE_TEMP_FILES /\ PdfEnded => temp_files = {}
    /\ RequestEnded => ~upload_copy

\* _process_pdf_file has returned its result for a file that was rasterized
PdfReturned == PdfEnded /\ pdf_raised = "none" /\ rasterizer = "ok"

\* C19: for a PDF with n pages, the PDF handler emits exactly n redacted
\* page images, one for every page in page order (so output_files has n
\* entries and pages_processed = n), including pages on which OCR finds no
\* text.
C19_OneImagePerPage ==
    PdfReturned =>
        /\ pdf_result[1].output_files = [n \in 1..Len(pdf_pages) |-> n]
        /\ pdf_files = 1..Len(pdf_pages)
        /\ pdf_result[1].pages_processed = Len(pdf_pages)

(***************************************************************************)
(* The paths a file's processing writes and removes: the output paths of   *)
(* the handlers of universal_processor.py and of _save_file_metadata       *)
(* (main.py).  A path is a directory and a file name; a file name is the   *)
(* sequence of its characters, taken apart by Path.stem and Path.suffix    *)
(* and put together by the handlers' f-strings.                            *)
(***************************************************************************)
INPUT_DIR == "data/input"
OUTPUT_DIR == "data/output"
TEMP_DIR == "data/temp"

\* The last index of a dot in a file name, 0 if there is none
LastDot(nm) == Max({0} \cup {i \in 1..Len(nm) : nm[i] = "."})

\* pathlib: the suffix starts at the last dot, unless the name starts or
\* ends with that dot
HasSuffix(nm) == 1 < LastDot(nm) /\ LastDot(nm) < Len(nm)
path_suffix(nm) == IF HasSuffix(nm) THEN SubSeq(nm, LastDot(nm), Len(nm)) ELSE <<>>
path_stem(nm) == IF HasSuffix(nm) THEN SubSeq(nm, 1, LastDot(nm) - 1) ELSE nm

\* The suffixes detect_file_type knows, as character sequences
KnownSuffixes ==
    {<<<<".", "p", "n", "g">>, ".png">>,
     <<<<".", "j", "p", "g">>, ".jpg">>,
     <<<<".", "j", "p", "e", "g">>, ".jpeg">>,
     <<<<".", "b", "m", "p">>, ".bmp">>,
     <<<<".", "t", "i", "f", "f">>, ".tiff">>,
     <<<<".", "t", "i", "f">>, ".tif">>,
     <<<<".", "w", "e", "b", "p">>, ".webp">>,
     <<<<".", "g", "i", "f">>, ".gif">>,
     <<<<".", "i", "c", "o">>, ".ico">>,
     <<<<".", "p", "p", "m">>, ".ppm">>,
     <<<<".", "p", "g", "m">>, ".pgm">>,
     <<<<".", "j", "s", "o", "n">>, ".json">>,
     <<<<".", "x", "m", "l">>, ".xml">>,
     <<<<".", "x", "l", "s", "x">>, ".xlsx">>,
     <<<<".", "x", "l", "s">>, ".xls">>,
     <<<<".", "o", "d", "s">>, ".ods">>,
     <<<<".", "p", "d", "f">>, ".pdf">>,
     <<<<".", "c", "s", "v">>, ".csv">>,
     <<<<".", "t", "x", "t">>, ".txt">>,
     <<<<".", "l", "o", "g">>, ".log">>,
     <<<<".", "t", "s", "v">>, ".tsv">>,
     <<<<".", "m", "d">>, ".md">>,
     <<<<".", "r", "s", "t">>, ".rst">>}

\* Path(file_path).suffix.lower() as detect_file_type compares it
lower_suffix(nm) ==
    IF \E e \in KnownSuffixes : e[1] = Lower(path_suffix(nm))
    THEN (CHOOSE e \in KnownSuffixes : e[1] = Lower(path_suffix(nm)))[2]
    ELSE "other"

\* The file names the handlers make of the stem
name_redacted_txt == <<"_", "r", "e", "d", "a", "c", "t", "e", "d", ".", "t", "x", "t">>
name_redacted_png == <<"_", "r", "e", "d", "a", "c", "t", "e", "d", ".", "p", "n", "g">>
name_processed_png == <<"_", "p", "r", "o", "c", "e", "s", "s", "e", "d", ".", "p", "n", "g">>
name_redacted == <<"_", "r", "e", "d", "a", "c", "t", "e", "d">>
name_redacted_json == <<"_", "r", "e", "d", "a", "c", "t", "e", "d", ".", "j", "s", "o", "n">>
name_redacted_xml == <<"_", "r", "e", "d", "a", "c", "t", "e", "d", ".", "x", "m", "l">>
name_redacted_xlsx == <<"_", "r", "e", "d", "a", "c", "t", "e", "d", ".", "x", "l", "s", "x">>
name_redacted_csv == <<"_", "r", "e", "d", "a", "c", "t", "e", "d", ".", "c", "s", "v">>
name_metadata_json == <<"_", "m", "e", "t", "a", "d", "a", "t", "a", ".", "j", "s", "o", "n">>
name_temp_page == <<"t", "e", "m", "p", "_", "p", "a", "g", "e", "_">>
name_png == <<".", "p", "n", "g">>
name_page == <<"_", "p", "a", "g", "e", "_">>

\* What a handler does to a path
Write(dir, nm) == [op |-> "write", dir |-> dir, name |-> nm]
Remove(dir, nm) == [op |-> "remove", dir |-> dir, name |-> nm]

\* _process_text_file writing the redacted text under the input's own name
text_output_same_name(nm) == path_stem(nm) \o path_suffix(nm)

\* _process_text_file: f"{file_stem}_redacted{Path(file_path).suffix}"
text_output_name(nm) == path_stem(nm) \o name_redacted \o path_suffix(nm)

\* _process_pdf_file: the paths of page n
temp_page(n) == name_temp_page \o IntStr(n) \o name_png
page_output(nm, n) == path_stem(nm) \o name_page \o IntStr(n) \o name_redacted_png

\* The iterations of _process_pdf_file for the pages 1..n: the raster is
\* written, the page image is written when the page has text, the raster
\* is removed
RECURSIVE pdf_ops(_, _, _)
pdf_ops(nm, n, with_text) ==
    IF n = 0 THEN <<>>
    ELSE pdf_ops(nm, n - 1, with_text)
         \o <<Write(TEMP_DIR, temp_page(n))>>
         \o (IF with_text THEN <<Write(OUTPUT_DIR, page_output(nm, n))>> ELSE <<>>)
         \o <<Remove(TEMP_DIR, temp_page(n))>>

\* What the handler of a file of type ty does to the file system, in order
\* (found: whether sensitive boxes, or on the page of a PDF any text, were
\* found)
handler_ops(ty, nm, pages, found) ==
    CASE ty = "image" ->
             <<Write(OUTPUT_DIR, path_stem(nm) \o name_redacted_txt),
               Write(OUTPUT_DIR, path_stem(nm) \o (IF found THEN name_redacted_png
                                                   ELSE name_processed_png))>>
      [] ty = "text" -> <<Write(OUTPUT_DIR, text_output_name(nm))>>
      [] ty = "json" -> <<Write(OUTPUT_DIR, path_stem(nm) \o name_redacted_json)>>
      [] ty = "xml" -> <<Write(OUTPUT_DIR, path_stem(nm) \o name_redacted_xml)>>
      [] ty = "excel" -> <<Write(OUTPUT_DIR, path_stem(nm) \o name_redacted_xlsx)>>
      [] ty = "csv" -> <<Write(OUTPUT_DIR, path_stem(nm) \o name_redacted_csv)>>
      [] ty = "pdf" -> pdf_ops(nm, pages, found)
      [] ty = "unknown" -> <<>>

\* The paths the operations ops[1..k] opened for writing, or removed
Touched(ops, k, kind) ==
    {[dir |-> ops[i].dir, name |-> ops[i].name] : i \in {j \in 1..k : ops[j].op = kind}}

\* process_file on the file at input_path: the handler's operations up to
\* the one that raises, or all of them
HandlePath(ops) ==
    \E k \in 0..Len(ops) :
        /\ paths_written' = Touched(ops, k, "write")
        /\ paths_removed' = Touched(ops, k, "remove")
        /\ pc' = IF k = Len(ops) /\ detect_file_type(lower_suffix(input_path.name)) # "unknown"
                 THEN "path_handled" ELSE "path_failed"

ProcessPath ==
    /\ pc = "process_path"
    /\ \E found \in BOOLEAN :
          HandlePath(handler_ops(detect_file_type(lower_suffix(input_path.name)),
                                 input_path.name, path_pages, found))
    /\ UNCHANGED <<input_path, path_pages, restOfPaths>>

\* _save_file_metadata after the handler returned: the metadata file is
\* opened for writing, unless opening it raises
SaveMetadataPath ==
    /\ pc = "path_handled"
    /\ \E opened \in BOOLEAN :
          paths_written' =
              IF opened
              THEN paths_written \cup {[dir |-> OUTPUT_DIR,
                                        name |-> path_stem(input_path.name) \o name_metadata_json]}
              ELSE paths_written
    /\ pc' = "path_done"
    /\ UNCHANGED <<input_path, path_pages, paths_removed, restOfPaths>>

\* The files explored: names that look like inputs and names that look like
\* the outputs and temporary files of the program, in each of its directories
InputNames ==
    {<<"a", ".", "p", "n", "g">>,
     <<"a", ".", "t", "x", "t">>,
     <<"a", ".", "j", "s", "o", "n">>,
     <<"a", ".", "p", "d", "f">>,
     <<"a", ".", "c", "s", "v">>,
     <<"a", ".", "x", "m", "l">>,
     <<"a", ".", "x", "l", "s", "x">>,
     <<"a", ".", "d", "o", "c", "x">>,
     <<"a", ".", "T", "X", "T">>,
     <<"a", ".", "b", ".", "t", "x", "t">>,
     <<".", "t", "x", "t">>,
     <<"a", "_", "r", "e", "d", "a", "c", "t", "e", "d", ".", "t", "x", "t">>,
     <<"a", "_", "r", "e", "d", "a", "c", "t", "e", "d", ".", "p", "n", "g">>,
     <<"a", "_", "p", "r", "o", "c", "e", "s", "s", "e", "d", ".", "p", "n", "g">>,
     <<"a", "_", "r", "e", "d", "a", "c", "t", "e", "d", ".", "j", "s", "o", "n">>,
     <<"a", "_", "m", "e", "t", "a", "d", "a", "t", "a", ".", "j", "s", "o", "n">>,
     <<"a", "_", "r", "e", "d", "a", "c", "t", "e", "d", "_", "r", "e", "d", "a", "c", "t", "e", "d", ".", "t", "x", "t">>,
     <<"t", "e", "m", "p", "_", "p", "a", "g", "e", "_", "1", ".", "p", "n", "g">>,
     <<"t", "e", "m", "p", "_", "p", "a", "g", "e", "_", "1", ".", "p", "d", "f">>,
     <<"a", "_", "p", "a", "g", "e", "_", "1", "_", "r", "e", "d", "a", "c", "t", "e", "d", ".", "p", "n", "g">>,
     <<"a", "_", "p", "a", "g", "e", "_", "1", "_", "r", "e", "d", "a", "c", "t", "e", "d", ".", "p", "d", "f">>}

InitPaths ==
    /\ pc = "process_path"
    /\ input_path \in [dir : {INPUT_DIR, OUTPUT_DIR, TEMP_DIR}, name : InputNames]
    /\ path_pages \in IF detect_file_type(lower_suffix(input_path.name)) = "pdf"
                      THEN 1..MaxPages ELSE {0}
    /\ paths_written = {}
    /\ paths_removed = {}
    /\ IdleRestOfPaths

NextPaths == ProcessPath \/ SaveMetadataPath

SpecPaths == InitPaths /\ [][NextPaths]_vars

\* C20: processing never writes to, truncates or deletes the input file: on
\* every path of every handler, success or failure, the set of paths
\* written or removed does not contain the path of the file being
\* processed, so the original content is unchanged afterwards.
C20_InputNeverTouched ==
    pc \in {"path_handled", "path_failed", "path_done"} =>
        input_path \notin (paths_written \cup paths_removed)

\* A text file that lies in the output directory and is named like an
\* output was processed: its redacted text and metadata were written next
\* to it
C20_Witness ==
    /\ pc = "path_done"
    /\ input_path = [dir |-> OUTPUT_DIR, name |-> <<"a", "_", "r", "e", "d", "a", "c", "t", "e", "d", ".", "t", "x", "t">>]
    /\ Cardinality(paths_written) = 2
    /\ \A p \in paths_written : p.dir = input_path.dir

(***************************************************************************)
(* The pattern registry (config.py, add_custom_pattern) and the detector   *)
(* that is constructed from it (sensitive_detector.py, __init__)           *)
(***************************************************************************)
MaxRegistrations == 2   \* calls of add_custom_pattern explored

\* The raw expressions explored: sequences of characters, as written by the
\* caller of add_custom_pattern
RawPatterns ==
    {<<"a">>, <<"a", "*">>, <<"(", "a", ")">>, <<"(", "a">>, <<"a", ")">>, <<"*", "a">>}

\* The nesting depth of groups after the first k characters of a raw
\* expression, or -1 once a group is closed that was never opened
RECURSIVE GroupDepth(_, _)
GroupDepth(raw, k) ==
    IF k = 0 THEN 0
    ELSE IF GroupDepth(raw, k - 1) < 0 THEN -1
    ELSE IF raw[k] = "(" THEN GroupDepth(raw, k - 1) + 1
    ELSE IF raw[k] = ")" THEN GroupDepth(raw, k - 1) - 1
    ELSE GroupDepth(raw, k - 1)

\* re.compile accepts the raw expression: its groups are balanced and every
\* repeat has something to repeat
compiles(raw) ==
    /\ GroupDepth(raw, Len(raw)) = 0
    /\ \A k \in 1..Len(raw) :
          raw[k] = "*" => k > 1 /\ raw[k - 1] \notin {"(", "*"}

\* The names explored: one that Config.SENSITIVE_PATTERNS defines, one that
\* the detector's own table defines as well, and two new ones
PatternNames == {"email", "pincode", "custom_a", "custom_b"}

\* An expression written in the source: it stands for itself and compiles
SourcePattern == <<"s", "o", "u", "r", "c", "e">>

\* Config.SENSITIVE_PATTERNS as the class body defines it
SENSITIVE_PATTERNS == [n \in {"email"} |-> SourcePattern]

\* dict[name] = value
DictSet(d, name, value) ==
    [n \in DOMAIN d \cup {name} |-> IF n = name THEN value ELSE d[n]]

\* {**a, **b}
DictMerge(a, b) ==
    [n \in DOMAIN a \cup DOMAIN b |-> IF n \in DOMAIN b THEN b[n] ELSE a[n]]

\* Config.add_custom_pattern(name, pattern): both dicts take the raw
\* expression as it is; nothing compiles it
add_custom_pattern(reg, name, pattern) ==
    [raised |-> "none", registry |-> DictSet(reg, name, pattern)]

AddCustomPattern ==
    /\ pc = "registry"
    /\ registrations < MaxRegistrations
    /\ \E name \in PatternNames, pattern \in RawPatterns :
          /\ registration' = <<[name |-> name, pattern |-> pattern, before |-> registry,
                                raised |-> add_custom_pattern(registry, name, pattern).raised]>>
          /\ registry' = add_custom_pattern(registry, name, pattern).registry
          /\ custom_patterns' = IF add_custom_pattern(registry, name, pattern).raised = "none"
                                THEN DictSet(custom_patterns, name, pattern)
                                ELSE custom_patterns
    /\ registrations' = registrations + 1
    /\ UNCHANGED <<pc, detector_patterns, detect_raised, restOfRegistry>>

\* The entries SensitiveDataDetector.__init__ writes after the registry's:
\* a name they share with the registry keeps the detector's expression
detector_own_patterns == [n \in {"pincode"} |-> SourcePattern]

\* SensitiveDataDetector(): self.patterns is a copy of the registry, taken
\* now, with the detector's own entries on top
NewDetector ==
    /\ pc = "registry"
    /\ detector_patterns = <<>>
    /\ detector_patterns' = <<DictMerge(registry, detector_own_patterns)>>
    /\ UNCHANGED <<pc, registry, custom_patterns, registration, registrations,
                   detect_raised, restOfRegistry>>

\* re.finditer(pattern, text, re.IGNORECASE) compiles the expression: the
\* table's own expressions compile, a raw one may not
finditer_raises(p) == p \in RawPatterns /\ ~compiles(p)

\* detect_in_text of the detector constructed: the loop over self.patterns
\* raises at the first expression that does not compile
DetectWithRegistry ==
    /\ pc = "registry"
    /\ detector_patterns # <<>>
    /\ detect_raised' = IF \E n \in DOMAIN detector_patterns[1] :
                               finditer_raises(detector_patterns[1][n])
                        THEN "re.error" ELSE "none"
    /\ pc' = "detected_with_registry"
    /\ UNCHANGED <<registry, custom_patterns, registration, registrations,
                   detector_patterns, restOfRegistry>>

InitRegistry ==
    /\ pc = "registry"
    /\ registry = SENSITIVE_PATTERNS
    /\ custom_patterns = <<>>
    /\ registration = <<>>
    /\ registrations = 0
    /\ detector_patterns = <<>>
    /\ detect_raised = "none"
    /\ IdleRestOfRegistry

NextRegistry == AddCustomPattern \/ NewDetector \/ DetectWithRegistry

SpecRegistry == InitRegistry /\ [][NextRegistry]_vars

\* C21: registering a custom pattern whose expression does not compile fails
\* at registration time with an invalid-pattern error and leaves the
\* registry unchanged; registering a valid pattern under an existing name
\* overwrites that name and under a new name inserts it.
C21_InvalidPatternRejected ==
    registration # <<>> =>
        IF compiles(registration[1].pattern)
        THEN /\ registration[1].raised = "none"
             /\ registry = DictSet(registration[1].before, registration[1].name,
                                   registration[1].pattern)
        ELSE /\ registration[1].raised = "InvalidPatternError"
             /\ registry = registration[1].before

(***************************************************************************)
(* The backend (src/backend/main.py): an upload is redacted and then       *)
(* described by the AI service                                             *)
(***************************************************************************)
backend_image_formats == {".png", ".jpg", ".jpeg", ".bmp", ".tiff", ".tif", ".webp", ".gif"}

\* SUPPORTED_FORMATS of the backend
backend_SUPPORTED_FORMATS ==
    backend_image_formats
    \cup {".pdf", ".txt", ".csv", ".xlsx", ".xls", ".json", ".xml", ".docx", ".doc"}

get_file_type(file_extension) ==
    IF file_extension \in backend_image_formats THEN "IMAGE"
    ELSE IF file_extension = ".pdf" THEN "PDF"
    ELSE IF file_extension \in {".xlsx", ".xls"} THEN "XLSX"
    ELSE IF file_extension = ".csv" THEN "CSV"
    ELSE IF file_extension = ".json" THEN "JSON"
    ELSE IF file_extension = ".xml" THEN "XML"
    ELSE IF file_extension \in {".docx", ".doc"} THEN "DOC"
    ELSE IF file_extension = ".txt" THEN "TXT"
    ELSE "OTHER"

\* The temporary copy of the upload that analyze_files saved
tmp_file_path == "upload"

\* result['output_files'] of the handler of a file of type ty when it
\* returns, in the order the handler appends them (found: whether sensitive
\* boxes, or on the page of a PDF any text, were found)
output_files(ty, found) ==
    CASE ty = "image" -> <<"redacted.txt", IF found THEN "redacted.png" ELSE "processed.png">>
      [] ty = "text" -> <<"redacted text">>
      [] ty = "json" -> <<"redacted.json">>
      [] ty = "xml" -> <<"redacted.xml">>
      [] ty = "excel" -> <<"redacted.xlsx">>
      [] ty = "csv" -> <<"redacted.csv">>
      [] ty = "pdf" -> IF found THEN <<"page_1_redacted.png">> ELSE <<>>
      [] ty = "unknown" -> <<>>

\* processor.process_file(file_path, ...) for the upload: it raises for a
\* type without handler and when the handler raises (fails), else it
\* returns the handler's result
backend_process_file(ext, fails, found) ==
    IF detect_file_type(ext) = "unknown" \/ fails
    THEN [raised |-> TRUE, output_files |-> <<>>]
    ELSE [raised |-> FALSE, output_files |-> output_files(detect_file_type(ext), found)]

\* redact_file: the first output file, or the upload itself when there is
\* none or when process_file raised
redact_file(r) ==
    IF r.raised THEN <<tmp_file_path>>
    ELSE IF r.output_files # <<>> THEN <<r.output_files[1]>> ELSE <<tmp_file_path>>

\* analyze_file_with_ai, first statement
RedactFile ==
    /\ pc = "redact_file"
    /\ \E fails \in BOOLEAN, found \in BOOLEAN :
          /\ process_result' = <<backend_process_file(upload_ext, fails, found)>>
          /\ redacted_file_path' = redact_file(backend_process_file(upload_ext, fails, found))
    /\ pc' = "read_redacted"
    /\ UNCHANGED <<upload_ext, file_bytes, sent, analysis, restOfBackend>>

\* The content of the file at a path: every file has its own
bytes_of(path) == <<"bytes of", path>>

\* analyze_file_with_ai: open(redacted_file_path, "rb").read(), which raises
\* when there is no path or the file cannot be opened
ReadFileBytes ==
    /\ pc = "read_redacted"
    /\ \E readable \in BOOLEAN :
          IF readable /\ redacted_file_path # <<>>
          THEN /\ file_bytes' = <<bytes_of(redacted_file_path[1])>>
               /\ pc' = "generate_content"
               /\ UNCHANGED analysis
          ELSE /\ pc' = "analysed"
               /\ analysis' = "error"
               /\ UNCHANGED file_bytes
    /\ UNCHANGED <<upload_ext, process_result, redacted_file_path, sent, restOfBackend>>

\* analyze_file_with_ai: model.generate_content gets the bytes as
\* inline_data for an image and the prompt alone for every other type; the
\* service may fail
GenerateContent ==
    /\ pc = "generate_content"
    /\ sent' = IF get_file_type(upload_ext) = "IMAGE" THEN file_bytes ELSE <<>>
    /\ \E answered \in BOOLEAN : analysis' = IF answered THEN "described" ELSE "error"
    /\ pc' = "analysed"
    /\ UNCHANGED <<upload_ext, process_result, redacted_file_path, file_bytes, restOfBackend>>

InitBackend ==
    /\ pc = "redact_file"
    /\ upload_ext \in backend_SUPPORTED_FORMATS
    /\ process_result = <<>>
    /\ redacted_file_path = <<>>
    /\ file_bytes = <<>>
    /\ sent = <<>>
    /\ analysis = "none"
    /\ IdleRestOfBackend

NextBackend == RedactFile \/ ReadFileBytes \/ GenerateContent

SpecBackend == InitBackend /\ [][NextBackend]_vars

\* C22: whenever the backend sends file bytes to the AI service for an
\* uploaded file, those bytes are the content of a redacted artifact
\* produced for that upload and never the bytes of the unredacted upload,
\* on every path, including when redaction raises an error or returns no
\* output files.
C22_OnlyRedactedBytesSent ==
    sent # <<>> =>
        /\ sent[1] # bytes_of(tmp_file_path)
        /\ \E k \in DOMAIN process_result[1].output_files :
              sent[1] = bytes_of(process_result[1].output_files[k])

(***************************************************************************)
(* clean_text applied to its own result (text_cleaner.py)                  *)
(***************************************************************************)
MaxCleanLen == 4   \* longest text drawn over the alphabet CleanSigma

CleanSigma == {"a", "l", " ", "(", "."}

\* A text of capitals that _standardize_casing rewrites
ShoutedText == <<"A", "A", "A", "A", "A", "A", "A", "A", "A", "A", " ", "L">>

CleanTexts == SeqsUpTo(CleanSigma, MaxCleanLen) \cup {ShoutedText}

\* clean_text called on dirty, and then on what it returned
CleanText ==
    /\ pc = "clean"
    /\ Len(cleaned) < 2
    /\ cleaned' = Append(cleaned, clean_text(IF cleaned = <<>> THEN dirty ELSE cleaned[1]))
    /\ UNCHANGED <<pc, dirty, restOfClean>>

InitClean ==
    /\ pc = "clean"
    /\ dirty \in CleanTexts
    /\ cleaned = <<>>
    /\ IdleRestOfClean

NextClean == CleanText

SpecClean == InitClean /\ [][NextClean]_vars

\* The text holds a run of more than 10 characters without a lowercase
\* letter and with a capital
HasLongCapsRun(t) ==
    \E a \in 0..Len(t), b \in 0..Len(t) :
        b - a > 10 /\ IsUpper(Slice(t, a, b))

\* The texts on which cleaning twice is compared with cleaning once
CleanDomain(t) ==
    /\ \A i \in 1..Len(t) : t[i] \in AlNum \cup {" "} \cup Punctuation \cup {"(", ")", "-"}
    /\ ~HasLongCapsRun(t)

\* C23: clean_text is idempotent: clean_text(clean_text(x)) = clean_text(x)
\* for every text x made of alphanumeric characters, spaces and
\* punctuation that contains no ALL-CAPS run longer than 10 characters.
C23_CleanTextIdempotent ==
    Len(cleaned) = 2 /\ CleanDomain(dirty) => cleaned[2] = cleaned[1]

(***************************************************************************)
(* The image handler on word-level OCR boxes (text_extractor.py,           *)
(* _extract_bounding_boxes): spans that cover several words                *)
(***************************************************************************)
MaxWords == 2   \* most words in a text OCR reads

\* text.split() from offset p on: the words of the text
RECURSIVE text_words(_, _)
text_words(t, p) ==
    LET start == p + Run(t, p, Spaces)
    IN  IF start >= Len(t) THEN <<>>
        ELSE <<Slice(t, start, start + Run(t, start, {c \in Range(t) : c \notin Spaces}))>>
             \o text_words(t, start + Run(t, start, {c \in Range(t) : c \notin Spaces}))

\* _extract_bounding_boxes over the words image_to_data reports, from word
\* k on: one box per word whose confidence is above 30 (confident[k])
RECURSIVE extract_bounding_boxes(_, _, _)
extract_bounding_boxes(words, confident, k) ==
    IF k > Len(words) THEN <<>>
    ELSE (IF confident[k]
          THEN <<[text |-> words[k], x |-> 6 * (k - 1), y |-> 0, w |-> 4, h |-> 2]>>
          ELSE <<>>)
         \o extract_bounding_boxes(words, confident, k + 1)

\* The texts OCR reads: one or two words, names and numbers
SpanTexts ==
    {t \in {<<"A", "b", " ", "C", "d">>, <<"A", "b">>, <<"C", "d">>,
            <<"1", "1", "1", " ", "A", "b">>, <<"1", "1", "1">>,
            <<"1", "1", "1", " ", "1", "1", "1">>} :
        Len(text_words(t, 0)) <= MaxWords}

InitSpans ==
    /\ pc = "process_image"
    /\ image \in {OriginalImage, NoImage}
    /\ ocr_text \in SpanTexts
    /\ ocr_boxes \in {extract_bounding_boxes(text_words(ocr_text, 0), confident, 1) :
                         confident \in [1..Len(text_words(ocr_text, 0)) -> BOOLEAN]}
    /\ redaction_mode = "blur"
    /\ sensitive_boxes = <<>> /\ blur_fails = <<>> /\ events = <<>>
    /\ output = NoImage /\ raised = "none"
    /\ text_output = <<>> /\ result = <<>> /\ env = <<>>
    /\ IdleText /\ IdleMerge /\ IdleJson /\ IdleCsv /\ IdleBatch /\ IdlePdf /\ IdlePaths /\ IdleRegistry /\ IdleBackend /\ IdleClean /\ IdleRegions /\ IdleScan /\ IdleParallel

SpecSpans == InitSpans /\ [][NextImage]_vars

\* An OCR box contributes to a span when its word is part of the span's text
Contributes(box, match) == Contains(match.text, box.text)

\* C24: in the image handler, when a detected span's text is spread over
\* several OCR boxes, every box contributing to that span is selected for
\* redaction, so each sensitive span detected in an image leads to at least
\* one redacted box.
C24_SpanBoxesSelected ==
    pc = "image_processed" /\ result # <<>> =>
        \A k \in 1..Len(items0), b \in 1..Len(ocr_boxes) :
            Contributes(ocr_boxes[b], items0[k]) =>
                \E s \in 1..Len(sensitive_boxes) : sensitive_boxes[s] = ocr_boxes[b]

(***************************************************************************)
(* Candidates the overlap filter leaves out                                *)
(***************************************************************************)
\* The candidate's range is the range of one of the spans returned
Returned(c, returned) ==
    \E k \in 1..Len(returned) : returned[k].start = c.start /\ returned[k].end = c.end

\* The candidate overlaps one of the spans returned
Covered(c, returned) ==
    \E k \in 1..Len(returned) : Overlaps(c, returned[k])

ContainsBox(region, box) ==
    /\ region.x <= box.x /\ region.y <= box.y
    /\ box.x + box.w <= region.x + region.w
    /\ box.y + box.h <= region.y + region.h

MaxRegionBoxes == 2   \* most boxes handed to detect_large_regions_for_redaction
expand_padding == 20  \* the padding detect_large_regions_for_redaction passes

\* The plain keywords of self.sensitive_keywords
sensitive_keywords ==
    {<<"n", "a", "m", "e">>, <<"d", "o", "b">>,
     <<"g", "e", "n", "d", "e", "r">>, <<"a", "a", "d", "h", "a", "a", "r">>,
     <<"p", "a", "n">>, <<"p", "h", "o", "n", "e">>,
     <<"m", "o", "b", "i", "l", "e">>, <<"a", "d", "d", "r", "e", "s", "s">>,
     <<"e", "m", "a", "i", "l">>, <<"c", "a", "t", "m", "a", "l">>,
     <<"m", "a", "l", "e">>, <<"f", "e", "m", "a", "l", "e">>,
     <<"g", "o", "v", "e", "r", "n", "m", "e", "n", "t">>}

\* The words of the government-document check
government_words ==
    {<<"g", "o", "v", "e", "r", "n", "m", "e", "n", "t">>,
     <<"i", "n", "d", "i", "a">>, <<"m", "a", "l", "e">>,
     <<"f", "e", "m", "a", "l", "e">>, <<"c", "a", "t", "m", "a", "l">>}

\* 'license_number_us', \b[A-Z0-9]{1,7}\b under re.IGNORECASE: the first
\* registry expression that matches a text with a short word of letters and
\* digits
license_number_at(t, p) ==
    \E n \in 1..7 :
        /\ p + n <= Len(t)
        /\ \A j \in 1..n : t[p + j] \in AlNum
        /\ Boundary(t, p) /\ Boundary(t, p + n)

\* The two expressions of self.sensitive_keywords
keyword_number_at(t, p) ==
    \E s1 \in 1..Len(t), s2 \in 1..Len(t) :
        /\ DigitsAt(t, p, 4)
        /\ Run(t, p + 4, Spaces) >= s1 /\ DigitsAt(t, p + 4 + s1, 4)
        /\ Run(t, p + 8 + s1, Spaces) >= s2 /\ DigitsAt(t, p + 8 + s1 + s2, 4)
keyword_date_at(t, p) ==
    /\ DigitsAt(t, p, 2) /\ p + 3 <= Len(t) /\ t[p + 3] \in {"-", "/"}
    /\ DigitsAt(t, p + 3, 2) /\ p + 6 <= Len(t) /\ t[p + 6] \in {"-", "/"}
    /\ DigitsAt(t, p + 6, 4)

\* The tests detect_in_bounding_boxes makes on the stripped text of a box,
\* in the code's order: the registry (on the texts drawn below the only
\* expressions that can match are those a short word of digits matches, and
\* license_number_us matches every such text), the keywords, four digits in
\* a row, the government words
is_sensitive(t) ==
    \/ \E p \in 0..Len(t) : license_number_at(t, p)
    \/ \E kw \in sensitive_keywords : Contains(Lower(t), kw)
    \/ \E p \in 0..Len(t) : keyword_number_at(t, p) \/ keyword_date_at(t, p)
    \/ (\E p \in 0..Len(t) : DigitsAt(t, p, 4)) /\ Len(t) >= 4
    \/ \E word \in government_words : Contains(Lower(t), word)

\* The texts of the boxes drawn: a number, a single character, a rule
RegionTexts == {<<"1", "2", "3", "4">>, <<"1">>, <<"-", "-">>}
sensitive_text == [t \in RegionTexts |-> is_sensitive(Strip(t))]

\* detect_in_bounding_boxes(region_boxes), from position k on: boxes whose
\* stripped text is shorter than 2 are skipped
RECURSIVE detect_in_bounding_boxes(_, _)
detect_in_bounding_boxes(bs, k) ==
    IF k > Len(bs) THEN <<>>
    ELSE IF Len(Strip(bs[k].text)) < 2 \/ ~sensitive_text[bs[k].text]
         THEN detect_in_bounding_boxes(bs, k + 1)
         ELSE <<bs[k]>> \o detect_in_bounding_boxes(bs, k + 1)

\* _expand_box(box, image_shape, padding)
expand_box(box, shape, pad) ==
    LET ex == Imax(0, box.x - pad)
        ey == Imax(0, box.y - pad)
    IN  [box EXCEPT !.x = ex, !.y = ey,
                    !.w = Imin(shape.width - ex, box.w + 2 * pad),
                    !.h = Imin(shape.height - ey, box.h + 2 * pad)]

\* detect_large_regions_for_redaction(region_boxes, image_shape)
detect_large_regions_for_redaction(bs, shape) ==
    LET sens_boxes == detect_in_bounding_boxes(bs, 1)
        merged_boxes == merge_nearby_boxes(sens_boxes, merge_distance).merged
    IN  IF sens_boxes = <<>> THEN sens_boxes
        ELSE [k \in 1..Len(merged_boxes) |->
                 expand_box(merged_boxes[k], shape, expand_padding)]

\* A call of _expand_box on the first box, with the padding of the caller
ExpandBox ==
    /\ pc = "regions"
    /\ Len(region_boxes) >= 1
    /\ expanded' = expand_box(region_boxes[1], image_shape, expand_padding)
    /\ pc' = "expanded"
    /\ UNCHANGED <<region_boxes, image_shape, regions, restOfRegions>>

\* A call of detect_large_regions_for_redaction
DetectLargeRegions ==
    /\ pc = "regions"
    /\ regions' = detect_large_regions_for_redaction(region_boxes, image_shape)
    /\ pc' = "regions_detected"
    /\ UNCHANGED <<region_boxes, image_shape, expanded, restOfRegions>>

\* The boxes and images drawn: boxes near the left and top edges, at the
\* right edge, and to the right of a narrow image
RegionXs == {0, 5, 90, 130}
RegionYs == {0, 45}
RegionWs == {10, 30}
RegionHs == {10}
RegionBoxes ==
    {[text |-> t, x |-> x, y |-> y, w |-> w, h |-> h] :
        t \in RegionTexts, x \in RegionXs, y \in RegionYs,
        w \in RegionWs, h \in RegionHs}
ImageShapes == {[height |-> 50, width |-> 100], [height |-> 60, width |-> 40]}

InitRegions ==
    /\ pc = "regions"
    /\ region_boxes \in SeqsUpTo(RegionBoxes, MaxRegionBoxes)
    /\ image_shape \in ImageShapes
    /\ expanded = <<>> /\ regions = <<>>
    /\ IdleRestOfRegions

NextRegions == ExpandBox \/ DetectLargeRegions
SpecRegions == InitRegions /\ [][NextRegions]_vars

\* C25: _expand_box returns the box grown by the padding on all four sides
\* and intersected with the image: left = max(0, x - p), top = max(0, y - p),
\* right = min(W, x + w + p), bottom = min(H, y + h + p)
C25_ExpandIsPadThenClip ==
    pc = "expanded" =>
        LET box == region_boxes[1]
            p == expand_padding
        IN  /\ expanded.x = Imax(0, box.x - p)
            /\ expanded.y = Imax(0, box.y - p)
            /\ expanded.x + expanded.w = Imin(image_shape.width, box.x + box.w + p)
            /\ expanded.y + expanded.h = Imin(image_shape.height, box.y + box.h + p)

\* C26: every region detect_large_regions_for_redaction returns lies inside
\* the image and has a positive width and height
C26_RegionsInsideImage ==
    pc = "regions_detected" =>
        \A k \in 1..Len(regions) :
            /\ 0 <= regions[k].x /\ 0 <= regions[k].y
            /\ regions[k].x + regions[k].w <= image_shape.width
            /\ regions[k].y + regions[k].h <= image_shape.height
            /\ regions[k].w > 0 /\ regions[k].h > 0

(***************************************************************************)
(* Directory scanning (main.py, _get_files_from_directory) and the routing *)
(* of the files it admits (universal_processor.py, process_file)           *)
(***************************************************************************)
MaxEntries == 3   \* most entries of the directory scanned

SUPPORTED_DOCUMENT_FORMATS == {".pdf", ".docx", ".doc", ".odt", ".rtf"}
SUPPORTED_SPREADSHEET_FORMATS == {".xlsx", ".xls", ".ods", ".csv"}
SUPPORTED_DATA_FORMATS == {".json", ".xml", ".yaml", ".yml", ".ini", ".conf"}
SUPPORTED_FORMATS ==
    SUPPORTED_IMAGE_FORMATS \cup SUPPORTED_TEXT_FORMATS \cup SUPPORTED_DOCUMENT_FORMATS
    \cup SUPPORTED_SPREADSHEET_FORMATS \cup SUPPORTED_DATA_FORMATS

\* The suffixes of SUPPORTED_FORMATS that detect_file_type does not name,
\* as character sequences
AdmittedSuffixes ==
    {<<<<".", "d", "o", "c", "x">>, ".docx">>,
     <<<<".", "d", "o", "c">>, ".doc">>,
     <<<<".", "o", "d", "t">>, ".odt">>,
     <<<<".", "r", "t", "f">>, ".rtf">>,
     <<<<".", "y", "a", "m", "l">>, ".yaml">>,
     <<<<".", "y", "m", "l">>, ".yml">>,
     <<<<".", "i", "n", "i">>, ".ini">>,
     <<<<".", "c", "o", "n", "f">>, ".conf">>}

\* Path(file_path).suffix.lower() as is_supported_file compares it
supported_suffix(nm) ==
    IF \E e \in KnownSuffixes \cup AdmittedSuffixes : e[1] = Lower(path_suffix(nm))
    THEN (CHOOSE e \in KnownSuffixes \cup AdmittedSuffixes : e[1] = Lower(path_suffix(nm)))[2]
    ELSE "other"

\* Config.is_supported_file(file_path)
is_supported_file(nm) == supported_suffix(nm) \in SUPPORTED_FORMATS

\* The characters of the names explored, in the order of their code points
CodePointOrder ==
    <<".", "0", "1", "2", "3", "4", "5", "6", "7", "8", "9", "A", "B", "C",
      "D", "E", "F", "G", "H", "I", "J", "K", "L", "M", "N", "O", "P", "Q",
      "R", "S", "T", "U", "V", "W", "X", "Y", "Z", "_", "a", "b", "c", "d",
      "e", "f", "g", "h", "i", "j", "k", "l", "m", "n", "o", "p", "q", "r",
      "s", "t", "u", "v", "w", "x", "y", "z">>
ord(c) == CHOOSE i \in 1..Len(CodePointOrder) : CodePointOrder[i] = c

\* a < b for two strings
str_less(a, b) ==
    \E k \in 1..(Imin(Len(a), Len(b)) + 1) :
        /\ SubSeq(a, 1, k - 1) = SubSeq(b, 1, k - 1)
        /\ \/ k > Len(a) /\ k <= Len(b)
           \/ k <= Len(a) /\ k <= Len(b) /\ ord(a[k]) < ord(b[k])

\* sorted(files): the names of S in ascending order
RECURSIVE sorted(_)
sorted(S) ==
    IF S = {} THEN <<>>
    ELSE LET least == CHOOSE n \in S : \A o \in S \ {n} : str_less(n, o)
         IN  <<least>> \o sorted(S \ {least})

\* _get_files_from_directory(directory): nothing if the directory does not
\* exist, else the entries that are files and are supported, sorted
get_files_from_directory(dir) ==
    IF ~dir.exists THEN <<>>
    ELSE sorted({e.name : e \in {d \in dir.entries : d.is_file /\ is_supported_file(d.name)}})

GetFilesFromDirectory ==
    /\ pc = "scan"
    /\ scan_files' = get_files_from_directory(scan_dir)
    /\ pc' = "scanned"
    /\ UNCHANGED <<scan_dir, routed, restOfScan>>

\* process_file on the next file of the list: detect_file_type decides the
\* handler, and 'unknown' raises ValueError (unsupported file type)
RouteFile ==
    /\ pc = "scanned"
    /\ Len(routed) < Len(scan_files)
    /\ routed' = Append(routed, detect_file_type(lower_suffix(scan_files[Len(routed) + 1])))
    /\ UNCHANGED <<pc, scan_dir, scan_files, restOfScan>>

\* The entries explored: files of types the handlers know, of admitted
\* types, of a type not admitted, a name without a suffix, and directories
ScanNames ==
    {<<"a", ".", "p", "n", "g">>,
     <<"a", ".", "t", "x", "t">>,
     <<"a", ".", "d", "o", "c", "x">>,
     <<"a", ".", "y", "a", "m", "l">>,
     <<"a", ".", "I", "N", "I">>,
     <<"a", ".", "e", "x", "e">>,
     <<"a">>,
     <<"b", ".", "c", "s", "v">>}
ScanEntries == [name : ScanNames, is_file : BOOLEAN]
UniqueNames(es) == \A e1, e2 \in es : e1.name = e2.name => e1 = e2

InitScan ==
    /\ pc = "scan"
    /\ scan_dir \in [exists : BOOLEAN,
                     entries : {es \in SUBSET ScanEntries :
                                   Cardinality(es) <= MaxEntries /\ UniqueNames(es)}]
    /\ scan_dir.exists \/ scan_dir.entries = {}
    /\ scan_files = <<>> /\ routed = <<>>
    /\ IdleRestOfScan

NextScan == GetFilesFromDirectory \/ RouteFile
SpecScan == InitScan /\ [][NextScan]_vars

\* C30: every file that directory scanning admits is routed by
\* detect_file_type to a handler: none gets the type 'unknown'
C30_AdmittedFilesRouted ==
    \A k \in 1..Len(routed) : routed[k] # "unknown"

(***************************************************************************)
(* The parallel batch (main.py, _process_files_parallel): each worker      *)
(* thread runs _process_single_file on its file, and the file operations   *)
(* of the workers interleave                                               *)
(***************************************************************************)
MaxParallel == 2   \* files of the parallel batch

ReadBack(dir, nm) == [op |-> "read", dir |-> dir, name |-> nm]

\* A raster written to the temp directory is read back by
\* extract_from_image before anything else is done with it
RECURSIVE with_reads(_)
with_reads(ops) ==
    IF ops = <<>> THEN <<>>
    ELSE (IF Head(ops).op = "write" /\ Head(ops).dir = TEMP_DIR
          THEN <<Head(ops), ReadBack(Head(ops).dir, Head(ops).name)>>
          ELSE <<Head(ops)>>)
         \o with_reads(Tail(ops))

\* The file operations of _process_single_file on the file f, in order: the
\* handler's, then _save_file_metadata's
worker_ops(f) ==
    with_reads(handler_ops(detect_file_type(lower_suffix(f.name)), f.name, f.pages, f.found))
    \o <<Write(OUTPUT_DIR, path_stem(f.name) \o name_metadata_json)>>

PathOf(op) == [dir |-> op.dir, name |-> op.name]
Exists(fs, path) == \E e \in fs : e.path = path
OwnerOf(fs, path) == (CHOOSE e \in fs : e.path = path).owner

\* The next file operation of worker i
NextOp(i) == worker_ops(par_files[i])[par_pos[i] + 1]

\* The paths worker i has written, read or removed so far
PathsUsed(i) == {PathOf(worker_ops(par_files[i])[k]) : k \in 1..par_pos[i]}

\* Worker i makes its next file operation: a write creates or overwrites
\* the file, a read or a removal finds the file
WorkerStep(i) ==
    /\ pc = "parallel"
    /\ par_status[i] = "running"
    /\ LET op == NextOp(i)
           path == PathOf(op)
       IN  /\ op.op = "write" \/ Exists(par_fs, path)
           /\ par_fs' = IF op.op = "write"
                        THEN {e \in par_fs : e.path # path} \cup {[path |-> path, owner |-> i]}
                        ELSE IF op.op = "remove" THEN {e \in par_fs : e.path # path}
                        ELSE par_fs
           /\ interference' =
                 IF Exists(par_fs, path) /\ OwnerOf(par_fs, path) # i
                 THEN interference \cup {[worker |-> i, op |-> op.op, path |-> path,
                                          owner |-> OwnerOf(par_fs, path)]}
                 ELSE interference
    /\ par_pos' = [par_pos EXCEPT ![i] = @ + 1]
    /\ par_status' = [par_status EXCEPT
                         ![i] = IF par_pos[i] + 1 = Len(worker_ops(par_files[i]))
                                THEN "done" ELSE "running"]
    /\ UNCHANGED <<pc, par_files, restOfParallel>>

\* Worker i reads or removes a file that is not there: the call raises and
\* _process_single_file returns the file as failed
WorkerRaises(i) ==
    /\ pc = "parallel"
    /\ par_status[i] = "running"
    /\ NextOp(i).op \in {"read", "remove"}
    /\ ~Exists(par_fs, PathOf(NextOp(i)))
    /\ par_status' = [par_status EXCEPT ![i] = "failed"]
    /\ UNCHANGED <<pc, par_files, par_pos, par_fs, interference, restOfParallel>>

\* The files explored: two images and two PDFs, with equal and with
\* different stems, and text files
ParallelNames ==
    {<<"a", ".", "p", "n", "g">>,
     <<"a", ".", "j", "p", "g">>,
     <<"a", ".", "t", "x", "t">>,
     <<"b", ".", "t", "x", "t">>,
     <<"a", ".", "p", "d", "f">>,
     <<"b", ".", "p", "d", "f">>}
ParallelFiles ==
    {f \in [name : ParallelNames, pages : 0..MaxPages, found : BOOLEAN] :
        (f.pages > 0) = (detect_file_type(lower_suffix(f.name)) = "pdf")}

\* The batch holds different files of one input directory
InitParallel ==
    /\ pc = "parallel"
    /\ par_files \in [1..MaxParallel -> ParallelFiles]
    /\ \A i, j \in 1..MaxParallel : i # j => par_files[i].name # par_files[j].name
    /\ par_pos = [i \in 1..MaxParallel |-> 0]
    /\ par_status = [i \in 1..MaxParallel |-> "running"]
    /\ par_fs = {}
    /\ interference = {}
    /\ IdleRestOfParallel

NextParallel == \E i \in 1..MaxParallel : WorkerStep(i) \/ WorkerRaises(i)
SpecParallel == InitParallel /\ [][NextParallel]_vars

\* C29: in a parallel batch no two files use the same temporary or output
\* path: the paths the workers write, read or remove are pairwise disjoint,
\* and no worker reads, overwrites or removes a file another worker wrote
C29_WorkersUseDisjointPaths ==
    /\ \A i, j \in 1..MaxParallel : i # j => PathsUsed(i) \cap PathsUsed(j) = {}
    /\ interference = {}

(***************************************************************************)
(* The operations together                                                 *)
(***************************************************************************)
Init ==
    \/ InitFilter
    \/ InitRedact
    \/ InitText
    \/ InitRedactImage
    \/ InitMerge
    \/ InitImage
    \/ InitJson
    \/ InitCsv
    \/ InitBatch
    \/ InitPdf
    \/ InitPaths
    \/ InitRegistry
    \/ InitBackend
    \/ InitClean
    \/ InitSpans
    \/ InitRegions
    \/ InitScan
    \/ InitParallel
Next ==
    \/ CollectCandidate
    \/ FilterCandidates
    \/ DetectInText
    \/ RedactText
    \/ RedactImage
    \/ MergeNearbyBoxes
    \/ ProcessImage
    \/ ProcessJson
    \/ ProcessCsv
    \/ NextBatch
    \/ NextPdf
    \/ NextPaths
    \/ NextRegistry
    \/ NextBackend
    \/ NextClean
    \/ NextRegions
    \/ NextScan
    \/ NextParallel
Spec == Init /\ [][Next]_vars

====
